---- MODULE Spec2Model ----
(***************************************************************************)
(* State-machine model of mcp-browser-tools:                               *)
(*   - the JS rendering-context pool     (src/src/browser/BrowserContextPool.js)     *)
(*   - the Go engine instance manager    (src/unnamed/part_002, package browser)     *)
(*   - the Go page-summary orchestrator  (src/internal/summary_tool, playwright_integration) *)
(*   - the JS page-summary orchestrator  (src/src/browser/BrowserInstanceManager.js, *)
(*                                        src/src/browser/PlaywrightIntegration.js)  *)
(* Each component has its own next-state relation and specification; the   *)
(* variables of the other components stay at their initial values.         *)
(***************************************************************************)
EXTENDS Integers, Sequences, FiniteSets, TLC

VARIABLES
    \* ---- JS BrowserContextPool ----
    pool,          \* this.pool: sequence of idle contexts, oldest release first
    inUse,         \* this.inUse: Map keyed by context, kept in insertion order
    ctxCount,      \* number of contexts created so far (identities 1..ctxCount)
    apc,           \* per caller: position in acquireContext / caller life cycle
    held,          \* per caller: the context its acquireContext() returned, 0 if none
    via,           \* per caller: branch that served the last acquire
    aCancelled,    \* per caller: the caller's deadline/cancellation has fired
    drainPc,       \* position of drain()
    drainIdx,      \* entries already visited by drain()'s current iterator
    timerFresh,    \* the last pool acquire/release event called resetInactivityTimer()
    nExpired,      \* idle entries with now - lastUsed > idleTimeout: a prefix of this.pool
    ctxState,      \* per context: "open", or who first called close() on it
    evictPc,       \* position of the running cleanupIdleContexts() cycle
    evictIdx,      \* position in contextsToRemove of the running cycle
    evictTargets,  \* entries the running cycle's scan found expired
    evictVictims,  \* entries the running cycle has spliced out and closed
    strayDone,     \* releaseContext() was called for a context that is not in use
    \* ---- Go BrowserInstanceManager ----
    browser,          \* bim.browser: 0 (nil) or an engine identity
    mu,               \* bim.mu: 0 (free) or the thread holding it
    inactivityTimer,  \* bim.inactivityTimer: 0 (nil) or a timer identity
    cancelTimeout,    \* bim.cancelTimeout: 0 (nil) or the timer whose token it cancels
    timerCount,       \* timers created so far
    timerState,       \* per timer: "pending", "stopped" or "fired"
    tokenDone,        \* per timer: its context token has been cancelled
    cbPc,             \* per timer: position of its AfterFunc callback
    gpc,              \* per caller: position in the entry point it is running, "failed" after (nil, err)
    gres,             \* per caller: handle returned by its last GetBrowserInstance
    engCount,         \* engines launched so far
    alive,            \* engines launched and not closed
    staleClosed,      \* history: a callback whose token was cancelled closed an engine
    \* ---- Go CapturePageSummary and the shared recorder ----
    cpc,                  \* per capture: position in CapturePageSummary
    pageVar,              \* per capture: the local variable `page` (0 = nil)
    pageOpened,           \* pages opened so far
    closeCount,           \* per page: number of Close() calls on it
    watcher,              \* per page: state of NewPage's cancellation goroutine
    ctxDone,              \* per capture: the caller's context is cancelled
    intercepted,          \* pages on which Route/On("response") handlers are installed
    capturedNetworkData,  \* pi.capturedNetworkData: sequence of <<owner, url>>
    pendingRequests,      \* pi.pendingRequests: url -> owner capture, 0 if absent
    issued,               \* per capture: requests its navigation has issued
    answered,             \* per capture: requests whose response has arrived
    summaryNet,           \* per capture: NetworkActivity of the returned summary
    outcome,              \* per capture: "none", "ok", "error" or "panic"
    overlapped,           \* per capture: another capture's setup ran after its own setup
    wiped,                \* history: a setup cleared unread activity of another capture
    \* ---- JS summarizePage ----
    jpc,           \* per operation: position in summarizePage / navigateToUrl
    jctx,          \* per operation: navigateToUrl's `context` is set
    jpage,         \* per operation: navigateToUrl's `page` is set
    jbound,        \* per operation: summarizePage's page/context are set
    jReleases,     \* per operation: calls of releaseBrowserContext on its context
    jPageCloses,   \* per operation: calls of page.close()
    jCloseFailed,  \* per operation: a page.close() threw
    jIssued,       \* per operation: requests issued by its page
    jSeen,         \* per operation: requests seen by its NetworkRequestCapture
    jResult,       \* per operation: "none", "summary", "error" or "cleanupError"
    \* ---- Go recorder: one page with SetupNetworkInterception's handlers ----
    rSetup,        \* SetupNetworkInterception(ctx, page) has returned
    rCount,        \* requests the page has issued so far (identities 1..rCount)
    rUrl,          \* per request: its URL, 0 before it is issued
    rState,        \* per request: "none", "sent" (routed and continued) or "done"
    rPending,      \* pi.pendingRequests: url -> the stored request, 0 if absent
    rData,         \* pi.capturedNetworkData: <<request, response, content-type, read ok, body>>
    \* ---- JS BrowserInstanceManager ----
    mBrowser,      \* this.browser: 0 (null) or an engine identity
    mTimer,        \* a timeout set by resetInactivityTimer() is pending
    mShutting,     \* this.isShuttingDown
    mContexts,     \* this.browserContexts
    mCtxCount,     \* contexts created so far
    mEngCount,     \* engines launched so far
    mAlive,        \* engines launched and not closed
    mCloseCalls,   \* per engine: browser.close() calls that were made on it
    mpc,           \* per caller: position in the manager method it is running
    mop,           \* per caller: "get", "acquire" or "shutdown", the method it called
    mLocal,        \* per caller: the method's local browser / close target
    mVisited,      \* per caller: contexts its shutdown() loop has visited
    \* ---- JS BrowserContextPool built from a configured maxPoolSize ----
    qStage,        \* "none" before the constructor ran, then "built"
    qOption,       \* options.maxPoolSize as the caller passed it
    qMax,          \* this.maxPoolSize
    qIdle,         \* this.pool.length
    qInUse,        \* this.inUse.size
    qCreated,      \* contexts created so far
    qpc,           \* per caller: position in acquireContext / caller life cycle
    qError,        \* the constructor or an acquireContext() reported an error
    \* ---- the inactivity timeout setting of both managers ----
    tgTimeout,     \* Go: bim.inactivityTimeout
    tgArmed,       \* Go: a timer created by ResetInactivityTimer is pending
    tgDur,         \* Go: the duration that timer was created with
    tgArg,         \* Go: argument of the last SetInactivityTimeout call
    tgErr,         \* Go: the last SetInactivityTimeout call reported an error
    tgTick,        \* Go: flips at every SetInactivityTimeout call
    tjTimeout,     \* JS: this.inactivityTimeout
    tjArmed,       \* JS: a timeout set by resetInactivityTimer is pending
    tjDur,         \* JS: the delay that timeout was set with
    tjArg,         \* JS: argument of the last setInactivityTimeout call
    tjErr,         \* JS: the last setInactivityTimeout call threw
    tjTick,        \* JS: flips at every setInactivityTimeout call
    tjContexts,    \* JS: this.browserContexts.size
    \* ---- Go SummaryTool.extractLinks ----
    lpc,           \* position of the call: "new", "walk" or "done"
    lAnchors,      \* href values of the document's anchors, in document order
    lBase,         \* the baseURL argument
    lIdx,          \* the anchor the traversal visits next
    lLinks,        \* links: the result slice
    lVisited,      \* visited: the resolved values seen so far
    lErr,          \* extractLinks returned an error
    \* ---- JS BrowserContextPool on its BrowserInstanceManager ----
    eBrowser,      \* manager: this.browser (0: null)
    eShutting,     \* manager: this.isShuttingDown
    eTimer,        \* manager: an inactivity timeout is pending
    eEngCount,     \* engines launched so far
    eDead,         \* engines whose browser.close() has completed
    ePool,         \* pool: this.pool, contexts oldest release first
    eInUse,        \* pool: keys of this.inUse
    eCtxEngine,    \* per context: the engine it was created on (0: not created)
    eCtxCount,     \* contexts created so far
    epc,           \* per caller: position in acquireContext / caller life cycle
    eLocal,        \* per caller: `browser` in createContext
    eHeld,         \* per caller: the context acquireContext returned
    \* ---- Go CapturePageSummary on the engine manager's inactivity timer ----
    kBrowser,      \* bim.browser (0: nil)
    kTimer,        \* a non-cancelled inactivity timer is pending
    kEngCount,     \* engines launched so far
    kDead,         \* engines that have been closed
    kpc,           \* per capture: position in CapturePageSummary
    kEngine,       \* per capture: engine of the page opened at line 41 (0: none)
    kNavEngine,    \* per capture: engine of the page NavigateToURL opened (0: none)
    \* ---- goroutines that touch the Go recorder's map and slice ----
    aHandler,      \* position of the handler invocation in progress ("none": no handler)
    aEvents,       \* handler invocations started so far
    aCaller,       \* per capture goroutine: position in CapturePageSummary
    \* ---- Go manager: the timer fields under its public entry points ----
    yMu,           \* bim.mu: 0 free, else the goroutine holding it (-1: a timer callback)
    yTimer,        \* bim.inactivityTimer (0: nil)
    yCancel,       \* bim.cancelTimeout: the token it cancels (0: nil)
    yTokCount,     \* tokens created so far
    yTokDone,      \* per token: cancelled
    yTimerCount,   \* timers created so far
    yTimerState,   \* per timer: "none", "pending", "stopped", "fired"
    yTimerTok,     \* per timer: the token its callback captured
    yCalls,        \* entry-point calls started so far
    ypc,           \* per goroutine: position in its entry point
    yCtx,          \* per goroutine: the local ctx of ResetInactivityTimer
    \* ---- utils.WithRetry ----
    wpc,           \* position in WithRetry: "new", "test", "fn", "sleep", "done"
    wMax,          \* maxRetries
    wInit,         \* initialDelay as passed in
    wDelay,        \* initialDelay, the variable the loop doubles
    wI,            \* the loop counter i
    wOuts,         \* outcomes of the calls of fn so far
    wSleeps,       \* durations passed to time.Sleep so far
    wRet           \* what WithRetry returned ("none": has not returned)

poolVars == <<pool, inUse, ctxCount, apc, held, via, aCancelled, drainPc, drainIdx,
              timerFresh, nExpired, ctxState, evictPc, evictIdx, evictTargets,
              evictVictims, strayDone>>
mgrVars == <<browser, mu, inactivityTimer, cancelTimeout, timerCount, timerState,
             tokenDone, cbPc, gpc, gres, engCount, alive, staleClosed>>
capVars == <<cpc, pageVar, pageOpened, closeCount, watcher, ctxDone, intercepted,
             capturedNetworkData, pendingRequests, issued, answered, summaryNet,
             outcome, overlapped, wiped>>
jsVars == <<jpc, jctx, jpage, jbound, jReleases, jPageCloses, jCloseFailed, jIssued,
            jSeen, jResult>>
recVars == <<rSetup, rCount, rUrl, rState, rPending, rData>>
jmVars == <<mBrowser, mTimer, mShutting, mContexts, mCtxCount, mEngCount, mAlive,
            mCloseCalls, mpc, mop, mLocal, mVisited>>
cfgVars == <<qStage, qOption, qMax, qIdle, qInUse, qCreated, qpc, qError>>
tmoVars == <<tgTimeout, tgArmed, tgDur, tgArg, tgErr, tgTick,
             tjTimeout, tjArmed, tjDur, tjArg, tjErr, tjTick, tjContexts>>
linkVars == <<lpc, lAnchors, lBase, lIdx, lLinks, lVisited, lErr>>
peVars == <<eBrowser, eShutting, eTimer, eEngCount, eDead, ePool, eInUse, eCtxEngine,
            eCtxCount, epc, eLocal, eHeld>>
raVars == <<aHandler, aEvents, aCaller>>
kaVars == <<yMu, yTimer, yCancel, yTokCount, yTokDone, yTimerCount, yTimerState,
            yTimerTok, yCalls, ypc, yCtx>>
ktVars == <<kBrowser, kTimer, kEngCount, kDead, kpc, kEngine, kNavEngine>>
wrVars == <<wpc, wMax, wInit, wDelay, wI, wOuts, wSleeps, wRet>>
vars == <<poolVars, mgrVars, capVars, jsVars, recVars, jmVars, cfgVars, tmoVars, linkVars,
          peVars, ktVars, raVars, kaVars, wrVars>>

\* what a step of one component leaves alone: the other components
PoolFrame == UNCHANGED <<mgrVars, capVars, jsVars, recVars, jmVars, cfgVars, tmoVars, linkVars, peVars, ktVars, raVars, kaVars, wrVars>>
MgrFrame == UNCHANGED <<poolVars, capVars, jsVars, recVars, jmVars, cfgVars, tmoVars, linkVars, peVars, ktVars, raVars, kaVars, wrVars>>
CapFrame == UNCHANGED <<poolVars, mgrVars, jsVars, recVars, jmVars, cfgVars, tmoVars, linkVars, peVars, ktVars, raVars, kaVars, wrVars>>
JsFrame == UNCHANGED <<poolVars, mgrVars, capVars, recVars, jmVars, cfgVars, tmoVars, linkVars, peVars, ktVars, raVars, kaVars, wrVars>>
RecFrame == UNCHANGED <<poolVars, mgrVars, capVars, jsVars, jmVars, cfgVars, tmoVars, linkVars, peVars, ktVars, raVars, kaVars, wrVars>>
JmFrame == UNCHANGED <<poolVars, mgrVars, capVars, jsVars, recVars, cfgVars, tmoVars, linkVars, peVars, ktVars, raVars, kaVars, wrVars>>
CfgFrame == UNCHANGED <<poolVars, mgrVars, capVars, jsVars, recVars, jmVars, tmoVars, linkVars, peVars, ktVars, raVars, kaVars, wrVars>>
TmoFrame == UNCHANGED <<poolVars, mgrVars, capVars, jsVars, recVars, jmVars, cfgVars, linkVars, peVars, ktVars, raVars, kaVars, wrVars>>
LinkFrame == UNCHANGED <<poolVars, mgrVars, capVars, jsVars, recVars, jmVars, cfgVars, tmoVars, peVars, ktVars, raVars, kaVars, wrVars>>
PeFrame == UNCHANGED <<poolVars, mgrVars, capVars, jsVars, recVars, jmVars, cfgVars, tmoVars, linkVars, ktVars, raVars, kaVars, wrVars>>
KtFrame == UNCHANGED <<poolVars, mgrVars, capVars, jsVars, recVars, jmVars, cfgVars, tmoVars, linkVars, peVars, raVars, kaVars, wrVars>>
RaFrame == UNCHANGED <<poolVars, mgrVars, capVars, jsVars, recVars, jmVars, cfgVars, tmoVars, linkVars, peVars, ktVars, kaVars, wrVars>>
KaFrame == UNCHANGED <<poolVars, mgrVars, capVars, jsVars, recVars, jmVars, cfgVars, tmoVars, linkVars, peVars, ktVars, raVars, wrVars>>
WrFrame == UNCHANGED <<poolVars, mgrVars, capVars, jsVars, recVars, jmVars, cfgVars, tmoVars, linkVars, peVars, ktVars, raVars, kaVars>>

Range(s) == {s[i] : i \in 1..Len(s)}

\* the sequence s without its i-th element (Array.prototype.splice(i, 1), Map.delete)
RemoveAt(s, i) == SubSeq(s, 1, i - 1) \o SubSeq(s, i + 1, Len(s))

IndexOf(s, x) == CHOOSE i \in 1..Len(s) : s[i] = x

(***************************************************************************)
(* JS BrowserContextPool                                                   *)
(***************************************************************************)

\* bounds of the pool model
maxPoolSize == 2
NumCallers == 3
MaxContexts == 3
MaxPreCreate == 2
NumLifeCallers == 2
NumStrayCallers == 1

Callers == 1..NumCallers

\* the callers that run while eviction and drain() are both at work
LifeCallers == 1..NumLifeCallers

\* the callers that run next to releases of contexts nobody holds
StrayCallers == 1..NumStrayCallers
Contexts == 1..MaxContexts

\* the variables of a cleanupIdleContexts() cycle
evictVars == <<evictPc, evictIdx, evictTargets, evictVictims>>

\* the pool as its constructor leaves it
PoolInit ==
    /\ pool = <<>>
    /\ ctxCount = 0
    /\ inUse = <<>>
    /\ apc = [c \in Callers |-> "idle"]
    /\ held = [c \in Callers |-> 0]
    /\ via = [c \in Callers |-> "none"]
    /\ aCancelled = [c \in Callers |-> FALSE]
    /\ drainPc = "new"
    /\ drainIdx = 0
    /\ timerFresh = FALSE
    /\ nExpired = 0
    /\ ctxState = [x \in Contexts |-> "open"]
    /\ evictPc = "idle"
    /\ evictIdx = 0
    /\ evictTargets = {}
    /\ evictVictims = {}
    /\ strayDone = FALSE

\* initialize(options): min(preCreateContexts, maxPoolSize) contexts are created and
\* pushed to the idle pool, then the cleanup interval is started
Initialize ==
    /\ drainPc = "new"
    /\ \E n \in 0..MaxPreCreate :
          /\ n <= maxPoolSize
          /\ pool' = [i \in 1..n |-> i]
          /\ ctxCount' = n
          /\ timerFresh' = (n > 0)
    /\ drainPc' = "idle"
    /\ UNCHANGED <<inUse, apc, held, via, aCancelled, drainIdx, nExpired, ctxState,
                   evictVars, strayDone>>
    /\ PoolFrame

\* Map.prototype.set: an existing key keeps its position
MapSet(m, x) == IF x \in Range(m) THEN m ELSE Append(m, x)

\* mutant of MapDelete: the key stays in the map
MapDeleteSkipped(m, x) == m

\* Map.prototype.delete, keeping a running iterator's position on the same entry
MapDelete(m, x) == IF x \in Range(m) THEN RemoveAt(m, IndexOf(m, x)) ELSE m

\* mutant of PoolAfterShift: the entry is read but left in the idle pool
PoolAfterPeek(p) == p

\* this.pool.shift(): the idle pool after its first entry is taken
PoolAfterShift(p) == Tail(p)

\* lines 35-38 and 58-61: hand the oldest idle entry to caller c; the manager is
\* not called on this path
TakeIdle(c, branch) ==
    /\ Len(pool) > 0
    /\ timerFresh' = FALSE
    /\ nExpired' = IF nExpired > 0 THEN nExpired - 1 ELSE 0
    /\ inUse' = MapSet(inUse, Head(pool))
    /\ pool' = PoolAfterShift(pool)
    /\ held' = [held EXCEPT ![c] = Head(pool)]
    /\ via' = [via EXCEPT ![c] = branch]
    /\ apc' = [apc EXCEPT ![c] = "holding"]

\* acquireContext(), synchronous part up to the first await or the return
AcquireContext(c) ==
    /\ drainPc # "new"
    /\ apc[c] = "idle"
    /\ IF Len(pool) > 0
       THEN TakeIdle(c, "pool")
       ELSE /\ apc' = [apc EXCEPT ![c] =
                        IF Len(inUse) < maxPoolSize THEN "creating" ELSE "polling"]
            /\ UNCHANGED <<pool, inUse, held, via, timerFresh, nExpired>>
    /\ aCancelled' = [aCancelled EXCEPT ![c] = FALSE]
    /\ UNCHANGED <<ctxCount, drainPc, drainIdx, ctxState, evictVars, strayDone>>
    /\ PoolFrame

\* await this.createContext() resolved: lines 44-50; createContext() went through
\* browserManager.getBrowserInstance(), which resets the inactivity timer
CreateDone(c) ==
    /\ apc[c] = "creating"
    /\ ctxCount < MaxContexts
    /\ timerFresh' = TRUE
    /\ ctxCount' = ctxCount + 1
    /\ inUse' = MapSet(inUse, ctxCount + 1)
    /\ held' = [held EXCEPT ![c] = ctxCount + 1]
    /\ via' = [via EXCEPT ![c] = "create"]
    /\ apc' = [apc EXCEPT ![c] = "holding"]
    /\ UNCHANGED <<pool, aCancelled, drainPc, drainIdx, nExpired, ctxState, evictVars,
                   strayDone>>
    /\ PoolFrame

\* await this.createContext() rejected: acquireContext() throws, nothing is tracked;
\* the timer was reset if getBrowserInstance() returned and newContext() threw
CreateFail(c) ==
    /\ apc[c] = "creating"
    /\ apc' = [apc EXCEPT ![c] = "idle"]
    /\ \E launched \in BOOLEAN : timerFresh' = (timerFresh \/ launched)
    /\ UNCHANGED <<pool, inUse, ctxCount, held, via, aCancelled, drainPc, drainIdx,
                   nExpired, ctxState, evictVars, strayDone>>
    /\ PoolFrame

\* one firing of the 100 ms setInterval callback that finds an idle entry
PollTick(c) ==
    /\ apc[c] = "polling"
    /\ TakeIdle(c, "poll")
    /\ UNCHANGED <<ctxCount, aCancelled, drainPc, drainIdx, ctxState, evictVars, strayDone>>
    /\ PoolFrame

\* the caller's deadline or cancellation fires while its acquireContext() is blocked;
\* acquireContext() takes no cancellation signal, so nothing in the pool changes
DeadlineFires(c) ==
    /\ apc[c] = "polling"
    /\ ~aCancelled[c]
    /\ aCancelled' = [aCancelled EXCEPT ![c] = TRUE]
    /\ UNCHANGED <<pool, inUse, ctxCount, apc, held, via, drainPc, drainIdx, timerFresh,
                   nExpired, ctxState, evictVars, strayDone>>
    /\ PoolFrame

\* mutant of InUseHas: the membership test of line 68 always succeeds
InUseHasAlways(m, x) == TRUE

\* this.inUse.has(context)
InUseHas(m, x) == x \in Range(m)

\* releaseContext(context) applied to the pool's collections
ReleaseEffect(x) ==
    IF InUseHas(inUse, x)
    THEN /\ inUse' = MapDelete(inUse, x)
         /\ pool' = Append(pool, x)
         /\ drainIdx' = IF drainPc = "inuse" /\ x \in Range(inUse)
                              /\ IndexOf(inUse, x) <= drainIdx
                        THEN drainIdx - 1 ELSE drainIdx
         /\ timerFresh' = TRUE
    ELSE UNCHANGED <<pool, inUse, drainIdx, timerFresh>>

\* the holder of a context gives it back (a call that was abandoned on its deadline
\* has no holder left to do so)
ReleaseContext(c) ==
    /\ apc[c] = "holding"
    /\ ~aCancelled[c]
    /\ ReleaseEffect(held[c])
    /\ apc' = [apc EXCEPT ![c] = "idle"]
    /\ held' = [held EXCEPT ![c] = 0]
    /\ via' = [via EXCEPT ![c] = "none"]
    /\ UNCHANGED <<ctxCount, aCancelled, drainPc, nExpired, ctxState, evictVars, strayDone>>
    /\ PoolFrame

\* context.close() called by `who` on context x: only the first close has an effect
CloseBy(cs, x, who) == IF cs[x] = "open" THEN [cs EXCEPT ![x] = who] ELSE cs

\* drain(): one iteration of `for (... of this.pool)` / `for (... of this.inUse.values())`
\* up to its `await contextInfo.context.close()`; both iterators are live, so they see
\* concurrent shifts and releases; after the last entry the collection is cleared
DrainIterate ==
    IF drainPc \in {"idle", "pool"} /\ (IF drainPc = "idle" THEN 0 ELSE drainIdx) < Len(pool)
    THEN LET i == IF drainPc = "idle" THEN 0 ELSE drainIdx IN
         /\ drainIdx' = i + 1
         /\ drainPc' = "pool"
         /\ ctxState' = CloseBy(ctxState, pool[i + 1], "drained")
         /\ UNCHANGED <<pool, inUse, nExpired>>
    ELSE LET j == IF drainPc = "inuse" THEN drainIdx ELSE 0 IN
         /\ pool' = IF drainPc = "inuse" THEN pool ELSE <<>>
         /\ nExpired' = IF drainPc = "inuse" THEN nExpired ELSE 0
         /\ IF j < Len(inUse)
            THEN /\ drainIdx' = j + 1
                 /\ drainPc' = "inuse"
                 /\ ctxState' = CloseBy(ctxState, inUse[j + 1], "drained")
                 /\ UNCHANGED inUse
            ELSE /\ inUse' = <<>>
                 /\ drainIdx' = 0
                 /\ drainPc' = "done"
                 /\ UNCHANGED ctxState

\* drain(): called once, at process shutdown; each step runs to the next await,
\* the awaited close() having resolved
Drain ==
    /\ drainPc \notin {"new", "done", "threw"}
    /\ DrainIterate
    /\ UNCHANGED <<ctxCount, apc, held, via, aCancelled, timerFresh, evictVars, strayDone>>
    /\ PoolFrame

\* drain(): the awaited close() rejected; nothing catches it, so drain() throws out
\* of its loop and clears neither collection
DrainCloseFails ==
    /\ drainPc \in {"pool", "inuse"}
    /\ drainPc' = "threw"
    /\ UNCHANGED <<pool, inUse, ctxCount, apc, held, via, aCancelled, drainIdx, timerFresh,
                   nExpired, ctxState, evictVars, strayDone>>
    /\ PoolFrame

\* releaseContext(x) by a caller that does not hold x: x was never acquired, was
\* released before, or was closed by eviction or drain
ReleaseStray(x) ==
    /\ drainPc # "new"
    /\ x \in 1..ctxCount
    /\ x \notin Range(inUse)
    /\ ReleaseEffect(x)
    /\ strayDone' = TRUE
    /\ UNCHANGED <<ctxCount, apc, held, via, aCancelled, drainPc, nExpired, ctxState,
                   evictVars>>
    /\ PoolFrame

\* the clock advances until the oldest idle entry that was within idleTimeout is past
\* it; entries are pushed with lastUsed = now, so the pool is ordered by lastUsed and
\* the expired entries are its first nExpired ones. No entry crosses the threshold
\* while a cleanup cycle waits for a close
TimePasses ==
    /\ evictPc # "closing"
    /\ nExpired < Len(pool)
    /\ nExpired' = nExpired + 1
    /\ UNCHANGED <<pool, inUse, ctxCount, apc, held, via, aCancelled, drainPc, drainIdx,
                   timerFresh, ctxState, evictVars, strayDone>>
    /\ PoolFrame

\* this.cleanupIntervalId is set: initialize() has started the interval and drain()
\* has not yet cleared it
CleanupIntervalActive == drainPc = "idle"

\* mutant of EvictEntry: the cycle closes an entry of the in-use map
EvictEntryInUse(p, i) == IF Len(inUse) > 0 THEN inUse[1] ELSE p[i + 1]

\* this.pool.splice(index, 1)[0]: the entry now at 0-based index i
EvictEntry(p, i) == p[i + 1]

\* this.pool.splice(index, 1): the idle pool without that entry
PoolAfterSplice(p, i) == RemoveAt(p, i + 1)

\* lines 93-95: splice the entry at contextsToRemove[i] = i, call close() on it and
\* wait; the array iterator of a running drain() keeps its index. ctxState records
\* whether the closed entry was past idleTimeout or within it
EvictOne(i) ==
    /\ pool' = PoolAfterSplice(pool, i)
    /\ ctxState' = CloseBy(ctxState, EvictEntry(pool, i),
                            IF i < nExpired THEN "evicted" ELSE "evictedFresh")
    /\ evictVictims' = evictVictims \cup {EvictEntry(pool, i)}
    /\ nExpired' = IF i < nExpired THEN nExpired - 1 ELSE nExpired
    /\ evictIdx' = i - 1
    /\ evictPc' = "closing"

\* the cleanup interval fires: cleanupIdleContexts() scans the pool (lines 80-89) and
\* runs the first iteration of the removal loop up to its await; a scan that finds
\* nothing changes nothing. One cycle runs at a time
EvictScan ==
    /\ CleanupIntervalActive
    /\ evictPc # "closing"
    /\ nExpired > 0
    /\ evictTargets' = {pool[i] : i \in 1..nExpired}
    /\ EvictOne(nExpired - 1)
    /\ UNCHANGED <<inUse, ctxCount, apc, held, via, aCancelled, drainPc, drainIdx,
                   timerFresh, strayDone>>
    /\ PoolFrame

\* the awaited close() settled: a rejection ends the cycle; otherwise the loop goes on
\* with the next recorded index, and `undefined.context` throws when the pool has
\* become shorter than that index; the cycle's locals are gone when it returns
EvictResume ==
    /\ evictPc = "closing"
    /\ \E closeOk \in BOOLEAN :
          IF closeOk /\ evictIdx >= 0 /\ evictIdx < Len(pool)
          THEN /\ EvictOne(evictIdx)
               /\ UNCHANGED evictTargets
          ELSE /\ evictPc' = IF ~closeOk THEN "closeFailed"
                             ELSE IF evictIdx < 0 THEN "done" ELSE "threw"
               /\ evictIdx' = 0
               /\ evictTargets' = {}
               /\ evictVictims' = {}
               /\ UNCHANGED <<pool, ctxState, nExpired>>
    /\ UNCHANGED <<inUse, ctxCount, apc, held, via, aCancelled, drainPc, drainIdx,
                   timerFresh, strayDone>>
    /\ PoolFrame

\* initialize(), acquireContext() and releaseContext() callers
PoolNext ==
    \/ Initialize
    \/ \E c \in Callers : AcquireContext(c)
    \/ \E c \in Callers : CreateDone(c)
    \/ \E c \in Callers : CreateFail(c)
    \/ \E c \in Callers : PollTick(c)
    \/ \E c \in Callers : DeadlineFires(c)
    \/ \E c \in Callers : ReleaseContext(c)

\* the same callers with drain() running at any time after initialize()
PoolDrainNext ==
    \/ Initialize
    \/ \E c \in Callers : AcquireContext(c)
    \/ \E c \in Callers : CreateDone(c)
    \/ \E c \in Callers : CreateFail(c)
    \/ \E c \in Callers : PollTick(c)
    \/ \E c \in Callers : DeadlineFires(c)
    \/ \E c \in Callers : ReleaseContext(c)
    \/ Drain
    \/ DrainCloseFails

\* callers (all three branches of acquireContext()), the clock and the cleanup
\* interval
PoolEvictNext ==
    \/ Initialize
    \/ \E c \in Callers : AcquireContext(c)
    \/ \E c \in Callers : CreateDone(c)
    \/ \E c \in Callers : CreateFail(c)
    \/ \E c \in Callers : PollTick(c)
    \/ \E c \in Callers : ReleaseContext(c)
    \/ TimePasses
    \/ EvictScan
    \/ EvictResume

\* initialize, acquire, release, eviction and drain; the callers are too few to fill
\* the in-use map while one of them is still asking, so none waits in the polling
\* branch, and every close() that drain() awaits resolves
PoolLifeNext ==
    \/ Initialize
    \/ \E c \in LifeCallers : AcquireContext(c)
    \/ \E c \in LifeCallers : CreateDone(c)
    \/ \E c \in LifeCallers : CreateFail(c)
    \/ \E c \in LifeCallers : ReleaseContext(c)
    \/ TimePasses
    \/ EvictScan
    \/ EvictResume
    \/ Drain

\* the same with releaseContext() also called on contexts nobody holds; with so few
\* callers the in-use map stays below maxPoolSize and no call waits in the polling
\* branch
PoolStrayNext ==
    \/ Initialize
    \/ \E c \in StrayCallers : AcquireContext(c)
    \/ \E c \in StrayCallers : CreateDone(c)
    \/ \E c \in StrayCallers : CreateFail(c)
    \/ \E c \in StrayCallers : ReleaseContext(c)
    \/ \E x \in Contexts : ReleaseStray(x)
    \/ TimePasses
    \/ EvictScan
    \/ EvictResume
    \/ Drain
    \/ DrainCloseFails

(***************************************************************************)
(* Go BrowserInstanceManager (package browser)                             *)
(***************************************************************************)

\* bounds of the engine-manager model
NumGoCallers == 2
MaxTimers == 2
MaxEngines == 2

GoCallers == 1..NumGoCallers
Timers == 1..MaxTimers

MgrInit ==
    /\ browser = 0
    /\ mu = 0
    /\ inactivityTimer = 0
    /\ cancelTimeout = 0
    /\ timerCount = 0
    /\ timerState = [t \in Timers |-> "none"]
    /\ tokenDone = [t \in Timers |-> FALSE]
    /\ cbPc = [t \in Timers |-> "none"]
    /\ gpc = [c \in GoCallers |-> "idle"]
    /\ gres = [c \in GoCallers |-> 0]
    /\ engCount = 0
    /\ alive = {}
    /\ staleClosed = FALSE

\* mutant of StopTimer: the previous timer is left armed
StopTimerSkipped(ts) == ts

\* time.Timer.Stop() on bim.inactivityTimer: a timer that has not fired never will;
\* one whose callback already started is not affected
StopTimer(ts) ==
    IF inactivityTimer # 0 /\ ts[inactivityTimer] = "pending"
    THEN [ts EXCEPT ![inactivityTimer] = "stopped"]
    ELSE ts

\* bim.cancelTimeout(): the token of the previous timer becomes Done
CancelToken(td) ==
    IF cancelTimeout # 0 THEN [td EXCEPT ![cancelTimeout] = TRUE] ELSE td

\* ResetInactivityTimer(): stop, cancel, then a new token and a new AfterFunc timer
ResetInactivityTimer ==
    /\ timerCount < MaxTimers
    /\ timerCount' = timerCount + 1
    /\ timerState' = [StopTimer(timerState) EXCEPT ![timerCount + 1] = "pending"]
    /\ tokenDone' = CancelToken(tokenDone)
    /\ inactivityTimer' = timerCount + 1
    /\ cancelTimeout' = timerCount + 1

\* mutant of MuAvailable: Lock() never waits
MuIgnored == TRUE

\* bim.mu.Lock() can return only when no thread holds the mutex
MuAvailable == mu = 0

\* a caller enters GetBrowserInstance / CloseBrowserInstance and reaches mu.Lock()
GoCall(c) ==
    /\ gpc[c] \in {"idle", "failed"}
    /\ \E op \in {"getWait", "closeWait"} : gpc' = [gpc EXCEPT ![c] = op]
    /\ UNCHANGED <<browser, mu, inactivityTimer, cancelTimeout, timerCount, timerState,
                   tokenDone, cbPc, gres, engCount, alive, staleClosed>>
    /\ MgrFrame

\* GetBrowserInstance lines 43-51: lock; an existing engine is returned after a reset
GetExisting(c) ==
    /\ gpc[c] = "getWait"
    /\ MuAvailable
    /\ browser # 0
    /\ ResetInactivityTimer
    /\ gres' = [gres EXCEPT ![c] = browser]
    /\ gpc' = [gpc EXCEPT ![c] = "idle"]
    /\ UNCHANGED <<browser, mu, cbPc, engCount, alive, staleClosed>>
    /\ MgrFrame

\* GetBrowserInstance lines 43-55: lock; no engine, so the launch begins under the lock
LaunchBegin(c) ==
    /\ gpc[c] = "getWait"
    /\ MuAvailable
    /\ browser = 0
    /\ mu' = c
    /\ gpc' = [gpc EXCEPT ![c] = "launching"]
    /\ UNCHANGED <<browser, inactivityTimer, cancelTimeout, timerCount, timerState,
                   tokenDone, cbPc, gres, engCount, alive, staleClosed>>
    /\ MgrFrame

\* lines 62-72: Chromium launched, handle stored, timer started, unlock
LaunchOk(c) ==
    /\ gpc[c] = "launching"
    /\ engCount < MaxEngines
    /\ engCount' = engCount + 1
    /\ alive' = alive \cup {engCount + 1}
    /\ browser' = engCount + 1
    /\ ResetInactivityTimer
    /\ gres' = [gres EXCEPT ![c] = engCount + 1]
    /\ mu' = 0
    /\ gpc' = [gpc EXCEPT ![c] = "idle"]
    /\ UNCHANGED <<cbPc, staleClosed>>
    /\ MgrFrame

\* mutant of LaunchFail: the error path returns without releasing the mutex
LaunchFailKeepsLock(c) ==
    /\ gpc[c] = "launching"
    /\ gres' = [gres EXCEPT ![c] = 0]
    /\ gpc' = [gpc EXCEPT ![c] = "failed"]
    /\ UNCHANGED <<browser, mu, inactivityTimer, cancelTimeout, timerCount, timerState,
                   tokenDone, cbPc, engCount, alive, staleClosed>>
    /\ MgrFrame

\* lines 55-59 / 62-66: playwright.Run or Launch failed; (nil, err) is returned and the
\* deferred Unlock runs
LaunchFail(c) ==
    /\ gpc[c] = "launching"
    /\ gres' = [gres EXCEPT ![c] = 0]
    /\ mu' = 0
    /\ gpc' = [gpc EXCEPT ![c] = "failed"]
    /\ UNCHANGED <<browser, inactivityTimer, cancelTimeout, timerCount, timerState,
                   tokenDone, cbPc, engCount, alive, staleClosed>>
    /\ MgrFrame

\* CloseBrowserInstance lines 77-100, run under the lock; closeOk is the outcome of
\* browser.Close()
CloseBody(closeOk) ==
    /\ timerState' = StopTimer(timerState)
    /\ tokenDone' = CancelToken(tokenDone)
    /\ inactivityTimer' = 0
    /\ cancelTimeout' = 0
    /\ IF browser # 0 /\ closeOk
       THEN /\ alive' = alive \ {browser}
            /\ browser' = 0
       ELSE UNCHANGED <<alive, browser>>

\* an explicit CloseBrowserInstance() call (main's deferred call, or any client)
CloseBrowserInstance(c) ==
    /\ gpc[c] = "closeWait"
    /\ MuAvailable
    /\ \E closeOk \in BOOLEAN : CloseBody(closeOk)
    /\ gpc' = [gpc EXCEPT ![c] = "idle"]
    /\ UNCHANGED <<mu, timerCount, cbPc, gres, engCount, staleClosed>>
    /\ MgrFrame

\* KeepAlive(): ResetInactivityTimer() without taking the lock
KeepAlive(c) ==
    /\ gpc[c] \in {"idle", "failed"}
    /\ ResetInactivityTimer
    /\ UNCHANGED <<browser, mu, cbPc, gpc, gres, engCount, alive, staleClosed>>
    /\ MgrFrame

\* the runtime fires a pending timer: its AfterFunc callback starts in its own goroutine
TimerFire(t) ==
    /\ timerState[t] = "pending"
    /\ timerState' = [timerState EXCEPT ![t] = "fired"]
    /\ cbPc' = [cbPc EXCEPT ![t] = "select"]
    /\ UNCHANGED <<browser, mu, inactivityTimer, cancelTimeout, timerCount, tokenDone,
                   gpc, gres, engCount, alive, staleClosed>>
    /\ MgrFrame

\* callback lines 116-122: the select on ctx.Done(), evaluated without the lock
CallbackSelect(t) ==
    /\ cbPc[t] = "select"
    /\ cbPc' = [cbPc EXCEPT ![t] = IF tokenDone[t] THEN "done" ELSE "closeWait"]
    /\ UNCHANGED <<browser, mu, inactivityTimer, cancelTimeout, timerCount, timerState,
                   tokenDone, gpc, gres, engCount, alive, staleClosed>>
    /\ MgrFrame

\* callback line 123: CloseBrowserInstance(), once the mutex is free
CallbackClose(t) ==
    /\ cbPc[t] = "closeWait"
    /\ MuAvailable
    /\ \E closeOk \in BOOLEAN :
          /\ CloseBody(closeOk)
          /\ staleClosed' = (staleClosed \/ (tokenDone[t] /\ browser # 0 /\ closeOk))
    /\ cbPc' = [cbPc EXCEPT ![t] = "done"]
    /\ UNCHANGED <<mu, timerCount, gpc, gres, engCount>>
    /\ MgrFrame

MgrNext ==
    \/ \E c \in GoCallers : GoCall(c)
    \/ \E c \in GoCallers : GetExisting(c)
    \/ \E c \in GoCallers : LaunchBegin(c)
    \/ \E c \in GoCallers : LaunchOk(c)
    \/ \E c \in GoCallers : LaunchFail(c)
    \/ \E c \in GoCallers : CloseBrowserInstance(c)
    \/ \E c \in GoCallers : KeepAlive(c)
    \/ \E t \in Timers : TimerFire(t)
    \/ \E t \in Timers : CallbackSelect(t)
    \/ \E t \in Timers : CallbackClose(t)

(***************************************************************************)
(* Go SummaryTool.CapturePageSummary with the PlaywrightIntegration that   *)
(* main() shares between all tool calls                                    *)
(***************************************************************************)

\* bounds of the capture model
NumCaptures == 2
NumUrls == 1

Captures == 1..NumCaptures
Urls == 1..NumUrls
Pages == 1..(2 * NumCaptures)

\* the page CapturePageSummary opens itself (summary_tool.go line 41)
FirstPage(k) == 2 * k - 1

\* the page opened inside NavigateToURL on behalf of capture k
SecondPage(k) == 2 * k

PageOwner(p) == (p + 1) \div 2

CapInit ==
    /\ cpc = [k \in Captures |-> "start"]
    /\ pageVar = [k \in Captures |-> 0]
    /\ pageOpened = {}
    /\ closeCount = [p \in Pages |-> 0]
    /\ watcher = [p \in Pages |-> "none"]
    /\ ctxDone = [k \in Captures |-> FALSE]
    /\ intercepted = {}
    /\ capturedNetworkData = <<>>
    /\ pendingRequests = [u \in Urls |-> 0]
    /\ issued = [k \in Captures |-> {}]
    /\ answered = [k \in Captures |-> {}]
    /\ summaryNet = [k \in Captures |-> <<>>]
    /\ outcome = [k \in Captures |-> "none"]
    /\ overlapped = [k \in Captures |-> FALSE]
    /\ wiped = FALSE

\* mutant of NavPage: NavigateToURL navigates the page its caller already holds
NavPageReuse(k) == FirstPage(k)

\* NavigateToURL lines 101-120: the page it navigates and returns is the one it has
\* just opened with pi.NewPage(ctx)
NavPage(k) == SecondPage(k)

\* the deferred func of CapturePageSummary (lines 46-50): it closes whatever the
\* variable `page` holds when the function returns; a nil interface panics
ReturnWith(k, result) ==
    /\ cpc' = [cpc EXCEPT ![k] = "done"]
    /\ IF pageVar[k] = 0
       THEN /\ outcome' = [outcome EXCEPT ![k] = "panic"]
            /\ UNCHANGED closeCount
       ELSE /\ outcome' = [outcome EXCEPT ![k] = result]
            /\ closeCount' = [closeCount EXCEPT ![pageVar[k]] = @ + 1]

\* line 41: st.playwright.NewPage(ctx); on success the watcher goroutine is spawned
\* and the deferred close is registered
CapNewPage(k) ==
    /\ cpc[k] = "start"
    /\ \E ok \in BOOLEAN :
          IF ok
          THEN /\ pageOpened' = pageOpened \cup {FirstPage(k)}
               /\ pageVar' = [pageVar EXCEPT ![k] = FirstPage(k)]
               /\ watcher' = [watcher EXCEPT ![FirstPage(k)] = "spawned"]
               /\ cpc' = [cpc EXCEPT ![k] = "setup"]
               /\ UNCHANGED outcome
          ELSE /\ cpc' = [cpc EXCEPT ![k] = "done"]
               /\ outcome' = [outcome EXCEPT ![k] = "error"]
               /\ UNCHANGED <<pageOpened, pageVar, watcher>>
    /\ UNCHANGED <<closeCount, ctxDone, intercepted, capturedNetworkData, pendingRequests,
                   issued, answered, summaryNet, overlapped, wiped>>
    /\ CapFrame

\* captures that have set up interception and not yet read the recorder
Recording == {j \in Captures : cpc[j] \in {"navigate", "goto", "content", "screenshot"}}

\* line 53, SetupNetworkInterception(ctx, page): the shared result list and pending
\* table are replaced, then the handlers are installed on the page passed in
CapSetup(k) ==
    /\ cpc[k] = "setup"
    /\ capturedNetworkData' = <<>>
    /\ pendingRequests' = [u \in Urls |-> 0]
    /\ wiped' = (wiped \/ \E i \in 1..Len(capturedNetworkData) :
                             capturedNetworkData[i][1] \in Recording \ {k})
    /\ overlapped' = [j \in Captures |-> j # k /\ (overlapped[j] \/ j \in Recording)]
    /\ \E ok \in BOOLEAN :
          IF ok
          THEN /\ intercepted' = intercepted \cup {pageVar[k]}
               /\ cpc' = [cpc EXCEPT ![k] = "navigate"]
               /\ UNCHANGED <<outcome, closeCount>>
          ELSE /\ ReturnWith(k, "error")
               /\ UNCHANGED intercepted
    /\ UNCHANGED <<pageVar, pageOpened, watcher, ctxDone, issued, answered, summaryNet>>
    /\ CapFrame

\* line 60 -> NavigateToURL line 101: pi.NewPage(ctx) inside NavigateToURL; when it
\* fails NavigateToURL returns (nil, err), which line 60 assigns to `page`
CapNavNewPage(k) ==
    /\ cpc[k] = "navigate"
    /\ \E ok \in BOOLEAN :
          IF ok
          THEN /\ pageOpened' = pageOpened \cup {NavPage(k)}
               /\ watcher' = [watcher EXCEPT ![NavPage(k)] = "spawned"]
               /\ cpc' = [cpc EXCEPT ![k] = "goto"]
               /\ UNCHANGED <<pageVar, outcome, closeCount>>
          ELSE /\ pageVar' = [pageVar EXCEPT ![k] = 0]
               /\ cpc' = [cpc EXCEPT ![k] = "done"]
               /\ outcome' = [outcome EXCEPT ![k] = "panic"]
               /\ UNCHANGED <<pageOpened, watcher, closeCount>>
    /\ UNCHANGED <<ctxDone, intercepted, capturedNetworkData, pendingRequests, issued,
                   answered, summaryNet, overlapped, wiped>>
    /\ CapFrame

\* page.Goto in progress: the navigating page issues a request for url u; the route
\* handler (lines 166-200) runs only if handlers are installed on that page
CapRequest(k, u) ==
    /\ cpc[k] = "goto"
    /\ u \notin issued[k]
    /\ issued' = [issued EXCEPT ![k] = @ \cup {u}]
    /\ pendingRequests' = IF NavPage(k) \in intercepted
                          THEN [pendingRequests EXCEPT ![u] = k]
                          ELSE pendingRequests
    /\ UNCHANGED <<cpc, pageVar, pageOpened, closeCount, watcher, ctxDone, intercepted,
                   capturedNetworkData, answered, summaryNet, outcome, overlapped, wiped>>
    /\ CapFrame

\* the response to a request of the navigating page arrives; the response handler
\* (lines 206-246) runs only if handlers are installed on that page
CapResponse(k, u) ==
    /\ cpc[k] = "goto"
    /\ u \in issued[k] \ answered[k]
    /\ answered' = [answered EXCEPT ![k] = @ \cup {u}]
    /\ IF NavPage(k) \in intercepted /\ pendingRequests[u] # 0
       THEN /\ capturedNetworkData' = Append(capturedNetworkData, <<pendingRequests[u], u>>)
            /\ pendingRequests' = [pendingRequests EXCEPT ![u] = 0]
       ELSE UNCHANGED <<capturedNetworkData, pendingRequests>>
    /\ UNCHANGED <<cpc, pageVar, pageOpened, closeCount, watcher, ctxDone, intercepted,
                   issued, summaryNet, outcome, overlapped, wiped>>
    /\ CapFrame

\* NavigateToURL lines 113-120 and line 60: Goto returned; on success `page` becomes
\* the navigated page, on failure NavigateToURL closes it and `page` becomes nil
CapGoto(k) ==
    /\ cpc[k] = "goto"
    /\ \E ok \in BOOLEAN :
          IF ok
          THEN /\ pageVar' = [pageVar EXCEPT ![k] = NavPage(k)]
               /\ cpc' = [cpc EXCEPT ![k] = "content"]
               /\ UNCHANGED <<closeCount, outcome>>
          ELSE /\ pageVar' = [pageVar EXCEPT ![k] = 0]
               /\ closeCount' = [closeCount EXCEPT ![NavPage(k)] = @ + 1]
               /\ cpc' = [cpc EXCEPT ![k] = "done"]
               /\ outcome' = [outcome EXCEPT ![k] = "panic"]
    /\ UNCHANGED <<pageOpened, watcher, ctxDone, intercepted, capturedNetworkData,
                   pendingRequests, issued, answered, summaryNet, overlapped, wiped>>
    /\ CapFrame

\* line 66 page.Content() and line 72 CaptureScreenshot: each may fail and return
CapRead(k) ==
    /\ cpc[k] \in {"content", "screenshot"}
    /\ \E ok \in BOOLEAN :
          IF ok
          THEN /\ cpc' = [cpc EXCEPT ![k] = IF cpc[k] = "content" THEN "screenshot"
                                            ELSE "collect"]
               /\ UNCHANGED <<outcome, closeCount>>
          ELSE ReturnWith(k, "error")
    /\ UNCHANGED <<pageVar, pageOpened, watcher, ctxDone, intercepted, capturedNetworkData,
                   pendingRequests, issued, answered, summaryNet, overlapped, wiped>>
    /\ CapFrame

\* lines 79-98: GetCapturedNetworkData(), link extraction, the summary is returned
CapCollect(k) ==
    /\ cpc[k] = "collect"
    /\ summaryNet' = [summaryNet EXCEPT ![k] = capturedNetworkData]
    /\ ReturnWith(k, "ok")
    /\ UNCHANGED <<pageVar, pageOpened, watcher, ctxDone, intercepted, capturedNetworkData,
                   pendingRequests, issued, answered, overlapped, wiped>>
    /\ CapFrame

\* the tool call's context is cancelled by its caller
CtxCancel(k) ==
    /\ ~ctxDone[k]
    /\ ctxDone' = [ctxDone EXCEPT ![k] = TRUE]
    /\ UNCHANGED <<cpc, pageVar, pageOpened, closeCount, watcher, intercepted,
                   capturedNetworkData, pendingRequests, issued, answered, summaryNet,
                   outcome, overlapped, wiped>>
    /\ CapFrame

\* NewPage lines 82-92: the goroutine runs once, whenever it is scheduled, and closes
\* the page only if the context is already done at that instant
WatcherRun(p) ==
    /\ watcher[p] = "spawned"
    /\ watcher' = [watcher EXCEPT ![p] = "ran"]
    /\ closeCount' = IF ctxDone[PageOwner(p)]
                     THEN [closeCount EXCEPT ![p] = @ + 1]
                     ELSE closeCount
    /\ UNCHANGED <<cpc, pageVar, pageOpened, ctxDone, intercepted, capturedNetworkData,
                   pendingRequests, issued, answered, summaryNet, outcome, overlapped, wiped>>
    /\ CapFrame

\* the capture operations with contexts that are never cancelled
CapNext ==
    \/ \E k \in Captures : CapNewPage(k)
    \/ \E k \in Captures : CapSetup(k)
    \/ \E k \in Captures : CapNavNewPage(k)
    \/ \E k \in Captures, u \in Urls : CapRequest(k, u)
    \/ \E k \in Captures, u \in Urls : CapResponse(k, u)
    \/ \E k \in Captures : CapGoto(k)
    \/ \E k \in Captures : CapRead(k)
    \/ \E k \in Captures : CapCollect(k)

\* the capture operations with cancellable contexts and NewPage's watcher goroutines
CapCancelNext ==
    \/ \E k \in Captures : CapNewPage(k)
    \/ \E k \in Captures : CapSetup(k)
    \/ \E k \in Captures : CapNavNewPage(k)
    \/ \E k \in Captures, u \in Urls : CapRequest(k, u)
    \/ \E k \in Captures, u \in Urls : CapResponse(k, u)
    \/ \E k \in Captures : CapGoto(k)
    \/ \E k \in Captures : CapRead(k)
    \/ \E k \in Captures : CapCollect(k)
    \/ \E k \in Captures : CtxCancel(k)
    \/ \E p \in Pages : WatcherRun(p)

(***************************************************************************)
(* JS SummaryTool.summarizePage with PlaywrightIntegration.navigateToUrl   *)
(***************************************************************************)

\* bounds of the JS orchestrator model
NumJsOps == 2
MaxJsRequests == 1

JsOps == 1..NumJsOps

JsInit ==
    /\ jpc = [j \in JsOps |-> "start"]
    /\ jctx = [j \in JsOps |-> FALSE]
    /\ jpage = [j \in JsOps |-> FALSE]
    /\ jbound = [j \in JsOps |-> FALSE]
    /\ jReleases = [j \in JsOps |-> 0]
    /\ jPageCloses = [j \in JsOps |-> 0]
    /\ jCloseFailed = [j \in JsOps |-> FALSE]
    /\ jIssued = [j \in JsOps |-> 0]
    /\ jSeen = [j \in JsOps |-> 0]
    /\ jResult = [j \in JsOps |-> "none"]

\* `if (page) await page.close(); if (context) releaseBrowserContext(context)`, the
\* body shared by navigateToUrl's catch (lines 28-33) and closePage (lines 39-44);
\* a close() that throws leaves the block before the release
CloseThenRelease(j, hasPage, hasContext, closeOk) ==
    /\ jPageCloses' = [jPageCloses EXCEPT ![j] = IF hasPage THEN @ + 1 ELSE @]
    /\ IF hasPage /\ ~closeOk
       THEN /\ jCloseFailed' = [jCloseFailed EXCEPT ![j] = TRUE]
            /\ UNCHANGED jReleases
       ELSE /\ jReleases' = [jReleases EXCEPT ![j] = IF hasContext THEN @ + 1 ELSE @]
            /\ UNCHANGED jCloseFailed

\* mutant of CatchHasContext: navigateToUrl's catch forgets the context
CatchDropsContext(j) == FALSE

\* navigateToUrl line 31: `if (context)` in the catch block
CatchHasContext(j) == jctx[j]

\* what the caller receives: an exception thrown by page.close() inside a catch or
\* finally block replaces the pending return value or exception
Delivered(result, closeThrew) == IF closeThrew THEN "cleanupError" ELSE result

\* navigateToUrl's catch block, then summarizePage's catch and finally: the
\* destructuring on line 151 never ran, so `page && context` is false there
NavigateFailed(j) ==
    /\ \E closeOk \in BOOLEAN : CloseThenRelease(j, jpage[j], CatchHasContext(j), closeOk)
    /\ jpc' = [jpc EXCEPT ![j] = "done"]
    /\ jResult' = [jResult EXCEPT ![j] = Delivered("error", jCloseFailed'[j])]

\* summarizePage's finally (lines 187-191) after navigateToUrl returned
SummarizeFinally(j, result) ==
    /\ \E closeOk \in BOOLEAN :
          IF jbound[j]
          THEN CloseThenRelease(j, TRUE, TRUE, closeOk)
          ELSE UNCHANGED <<jPageCloses, jReleases, jCloseFailed>>
    /\ jpc' = [jpc EXCEPT ![j] = "done"]
    /\ jResult' = [jResult EXCEPT ![j] = Delivered(result, jCloseFailed'[j])]

\* navigateToUrl line 15: await this.browserManager.acquireBrowserContext()
JsAcquire(j) ==
    /\ jpc[j] = "start"
    /\ \E ok \in BOOLEAN :
          IF ok
          THEN /\ jctx' = [jctx EXCEPT ![j] = TRUE]
               /\ jpc' = [jpc EXCEPT ![j] = "newPage"]
               /\ UNCHANGED <<jReleases, jPageCloses, jCloseFailed, jResult>>
          ELSE /\ NavigateFailed(j)
               /\ UNCHANGED jctx
    /\ UNCHANGED <<jpage, jbound, jIssued, jSeen>>
    /\ JsFrame

\* navigateToUrl line 16: await context.newPage()
JsNewPage(j) ==
    /\ jpc[j] = "newPage"
    /\ \E ok \in BOOLEAN :
          IF ok
          THEN /\ jpage' = [jpage EXCEPT ![j] = TRUE]
               /\ jpc' = [jpc EXCEPT ![j] = "goto1"]
               /\ UNCHANGED <<jReleases, jPageCloses, jCloseFailed, jResult>>
          ELSE /\ NavigateFailed(j)
               /\ UNCHANGED jpage
    /\ UNCHANGED <<jctx, jbound, jIssued, jSeen>>
    /\ JsFrame

\* navigateToUrl lines 22-26: the first page.goto(url); on success {page, context}
\* is returned and bound by summarizePage line 151
JsGotoFirst(j) ==
    /\ jpc[j] = "goto1"
    /\ \E ok \in BOOLEAN :
          IF ok
          THEN /\ jbound' = [jbound EXCEPT ![j] = TRUE]
               /\ jpc' = [jpc EXCEPT ![j] = "setup"]
               /\ UNCHANGED <<jReleases, jPageCloses, jCloseFailed, jResult>>
          ELSE /\ NavigateFailed(j)
               /\ UNCHANGED jbound
    /\ UNCHANGED <<jctx, jpage, jIssued, jSeen>>
    /\ JsFrame

\* the page issues a request while a goto is in progress; the route handler of
\* NetworkRequestCapture exists only after setupInterception (line 156)
JsRequest(j) ==
    /\ jpc[j] \in {"goto1", "goto2"}
    /\ jIssued[j] < MaxJsRequests
    /\ jIssued' = [jIssued EXCEPT ![j] = @ + 1]
    /\ jSeen' = [jSeen EXCEPT ![j] = IF jpc[j] = "goto2" THEN @ + 1 ELSE @]
    /\ UNCHANGED <<jpc, jctx, jpage, jbound, jReleases, jPageCloses, jCloseFailed, jResult>>
    /\ JsFrame

JsAfter(step) ==
    CASE step = "setup" -> "goto2"
      [] step = "goto2" -> "content"
      [] step = "content" -> "links"
      [] step = "links" -> "screenshot"
      [] OTHER -> "return"

\* summarizePage lines 156-171: setupInterception, second goto, content(),
\* extractLinks, captureScreenshot; a throw goes to catch and finally
JsStep(j) ==
    /\ jpc[j] \in {"setup", "goto2", "content", "links", "screenshot"}
    /\ \E ok \in BOOLEAN :
          IF ok
          THEN /\ jpc' = [jpc EXCEPT ![j] = JsAfter(jpc[j])]
               /\ UNCHANGED <<jReleases, jPageCloses, jCloseFailed, jResult>>
          ELSE SummarizeFinally(j, "error")
    /\ UNCHANGED <<jctx, jpage, jbound, jIssued, jSeen>>
    /\ JsFrame

\* summarizePage lines 175-184: the summary is built and returned through finally
JsReturn(j) ==
    /\ jpc[j] = "return"
    /\ SummarizeFinally(j, "summary")
    /\ UNCHANGED <<jctx, jpage, jbound, jIssued, jSeen>>
    /\ JsFrame

JsNext ==
    \/ \E j \in JsOps : JsAcquire(j)
    \/ \E j \in JsOps : JsNewPage(j)
    \/ \E j \in JsOps : JsGotoFirst(j)
    \/ \E j \in JsOps : JsRequest(j)
    \/ \E j \in JsOps : JsStep(j)
    \/ \E j \in JsOps : JsReturn(j)

(***************************************************************************)
(* Go PlaywrightIntegration.SetupNetworkInterception: the route and        *)
(* response handlers on the page they are installed on                     *)
(***************************************************************************)

\* bounds of the recorder model
MaxCycles == 3
NumRecUrls == 2

Cycles == 1..MaxCycles
RecUrls == 1..NumRecUrls

RecInit ==
    /\ rSetup = FALSE
    /\ rCount = 0
    /\ rUrl = [r \in Cycles |-> 0]
    /\ rState = [r \in Cycles |-> "none"]
    /\ rPending = [u \in RecUrls |-> 0]
    /\ rData = <<>>

\* lines 154-250: result list and pending table replaced, handlers installed
RecSetup ==
    /\ ~rSetup
    /\ rSetup' = TRUE
    /\ rData' = <<>>
    /\ rPending' = [u \in RecUrls |-> 0]
    /\ UNCHANGED <<rCount, rUrl, rState>>
    /\ RecFrame

\* line 196: the key of the pending table is request.URL()
PendingKey(r, u) == u

\* route handler, lines 166-200: the page issues a request for url u; it is stored in
\* pendingRequests under its URL (replacing what is there) and continued
RecRoute(u) ==
    /\ rSetup
    /\ rCount < MaxCycles
    /\ rCount' = rCount + 1
    /\ rUrl' = [rUrl EXCEPT ![rCount + 1] = u]
    /\ rState' = [rState EXCEPT ![rCount + 1] = "sent"]
    /\ rPending' = [rPending EXCEPT ![PendingKey(rCount + 1, u)] = rCount + 1]
    /\ UNCHANGED <<rSetup, rData>>
    /\ RecFrame

\* content-type headers a response may carry
ContentTypes == {"text/html", "application/json", "application/xml", "image/png"}

\* lines 230-236: `body, err := response.Body()` is called whatever the response's
\* content-type is; on an error a warning is logged and capturedResp.Body keeps its
\* zero value, otherwise it is string(body) (here "content", a non-empty body)
CapturedBody(t, readOk) == IF readOk THEN "content" ELSE ""

\* response handler, lines 206-246: the response of request r arrives, with content
\* type t and a body whose read succeeds or not; without an entry under the request's
\* URL the handler returns, otherwise it appends the stored request paired with this
\* response and deletes the entry
RecResponse(r, t, readOk) ==
    /\ rState[r] = "sent"
    /\ rState' = [rState EXCEPT ![r] = "done"]
    /\ LET key == PendingKey(r, rUrl[r]) IN
       IF rPending[key] = 0
       THEN UNCHANGED <<rData, rPending>>
       ELSE /\ rData' = Append(rData, <<rPending[key], r, t, readOk, CapturedBody(t, readOk)>>)
            /\ rPending' = [rPending EXCEPT ![key] = 0]
    /\ UNCHANGED <<rSetup, rCount, rUrl>>
    /\ RecFrame

RecNext ==
    \/ RecSetup
    \/ \E u \in RecUrls : RecRoute(u)
    \/ \E r \in Cycles, t \in ContentTypes, readOk \in BOOLEAN : RecResponse(r, t, readOk)

(***************************************************************************)
(* JS BrowserInstanceManager (src/src/browser/BrowserInstanceManager.js)   *)
(***************************************************************************)

\* bounds of the JS engine-manager model
NumJmCallers == 2
MaxJmEngines == 2
MaxJmContexts == 1

\* caller 0 is the inactivity timeout's callback
JmCallers == 0..NumJmCallers
JmEngines == 1..MaxJmEngines
JmContexts == 1..MaxJmContexts

JmInit ==
    /\ mBrowser = 0
    /\ mTimer = FALSE
    /\ mShutting = FALSE
    /\ mContexts = {}
    /\ mCtxCount = 0
    /\ mEngCount = 0
    /\ mAlive = {}
    /\ mCloseCalls = [e \in JmEngines |-> 0]
    /\ mpc = [c \in JmCallers |-> "idle"]
    /\ mop = [c \in JmCallers |-> "none"]
    /\ mLocal = [c \in JmCallers |-> 0]
    /\ mVisited = [c \in JmCallers |-> {}]

\* getBrowserInstance() lines 20-37, entered by getBrowserInstance() itself or through
\* acquireBrowserContext() line 41: with a handle present the timer is reset and the
\* handle returned, otherwise the call suspends on playwright.chromium.launch()
JmGetBrowserInstance(c, op) ==
    /\ c # 0
    /\ mpc[c] = "idle"
    /\ IF mBrowser = 0
       THEN /\ mpc' = [mpc EXCEPT ![c] = "launching"]
            /\ mop' = [mop EXCEPT ![c] = op]
            /\ UNCHANGED <<mTimer, mLocal>>
       ELSE /\ mTimer' = TRUE
            /\ mLocal' = [mLocal EXCEPT ![c] = mBrowser]
            /\ mop' = [mop EXCEPT ![c] = IF op = "acquire" THEN op ELSE "none"]
            /\ mpc' = [mpc EXCEPT ![c] = IF op = "acquire" THEN "newContext" ELSE "idle"]
    /\ UNCHANGED <<mBrowser, mShutting, mContexts, mCtxCount, mEngCount, mAlive,
                   mCloseCalls, mVisited>>
    /\ JmFrame

\* lines 23-36: the launch resolved; the new engine is stored in this.browser, the
\* timer is reset and this.browser is returned
JmLaunchDone(c) ==
    /\ mpc[c] = "launching"
    /\ mEngCount < MaxJmEngines
    /\ mEngCount' = mEngCount + 1
    /\ mAlive' = mAlive \cup {mEngCount + 1}
    /\ mBrowser' = mEngCount + 1
    /\ mTimer' = TRUE
    /\ mLocal' = [mLocal EXCEPT ![c] = mEngCount + 1]
    /\ mpc' = [mpc EXCEPT ![c] = IF mop[c] = "acquire" THEN "newContext" ELSE "idle"]
    /\ mop' = [mop EXCEPT ![c] = IF mop[c] = "acquire" THEN @ ELSE "none"]
    /\ UNCHANGED <<mShutting, mContexts, mCtxCount, mCloseCalls, mVisited>>
    /\ JmFrame

\* the launch rejected: getBrowserInstance() (and acquireBrowserContext()) throws
JmLaunchFail(c) ==
    /\ mpc[c] = "launching"
    /\ mpc' = [mpc EXCEPT ![c] = "idle"]
    /\ mop' = [mop EXCEPT ![c] = "none"]
    /\ mLocal' = [mLocal EXCEPT ![c] = 0]
    /\ UNCHANGED <<mBrowser, mTimer, mShutting, mContexts, mCtxCount, mEngCount, mAlive,
                   mCloseCalls, mVisited>>
    /\ JmFrame

\* acquireBrowserContext() lines 42-45: browser.newContext() resolved (only a live
\* engine creates contexts), the context is tracked and the timer reset; or it rejected
JmNewContext(c) ==
    /\ mpc[c] = "newContext"
    /\ mpc' = [mpc EXCEPT ![c] = "idle"]
    /\ mop' = [mop EXCEPT ![c] = "none"]
    /\ IF mLocal[c] \in mAlive /\ mCtxCount < MaxJmContexts
       THEN /\ mCtxCount' = mCtxCount + 1
            /\ mContexts' = mContexts \cup {mCtxCount + 1}
            /\ mTimer' = TRUE
       ELSE UNCHANGED <<mCtxCount, mContexts, mTimer>>
    /\ UNCHANGED <<mBrowser, mShutting, mEngCount, mAlive, mCloseCalls, mLocal, mVisited>>
    /\ JmFrame

\* releaseBrowserContext(context) lines 48-57, from the resolution of context.close()
\* on: the context is untracked and the timer reset when no context is left
JmReleaseContext(x) ==
    /\ x \in mContexts
    /\ mContexts' = mContexts \ {x}
    /\ mTimer' = (mTimer \/ mContexts = {x})
    /\ UNCHANGED <<mBrowser, mShutting, mCtxCount, mEngCount, mAlive, mCloseCalls, mpc,
                   mop, mLocal, mVisited>>
    /\ JmFrame

\* line 78: `!this.isShuttingDown`
NotShuttingDown == ~mShutting

\* shutdown() lines 77-85, the synchronous start, with `pending` telling whether a
\* timeout is pending when it is called: without a handle or with a shutdown in
\* progress it returns at once; otherwise the flag is set and the timer cleared
JmShutdownBegin(c, pending) ==
    /\ mpc[c] = "idle"
    /\ mop' = [mop EXCEPT ![c] = "shutdown"]
    /\ IF mBrowser # 0 /\ NotShuttingDown
       THEN /\ mShutting' = TRUE
            /\ mTimer' = FALSE
            /\ mpc' = [mpc EXCEPT ![c] = "sdContexts"]
       ELSE /\ mpc' = [mpc EXCEPT ![c] = "sdReturned"]
            /\ mTimer' = pending
            /\ UNCHANGED mShutting
    /\ mVisited' = [mVisited EXCEPT ![c] = {}]
    /\ UNCHANGED <<mBrowser, mContexts, mCtxCount, mEngCount, mAlive, mCloseCalls, mLocal>>

\* an explicit shutdown() call
JmShutdown(c) ==
    /\ c # 0
    /\ JmShutdownBegin(c, mTimer)
    /\ JmFrame

\* the inactivity timeout elapses (lines 64-67): its callback calls shutdown(), which
\* is the callback's own call (caller 0) or, while that one is still running, a call
\* that returns at once
JmTimerFire ==
    /\ mTimer
    /\ IF mpc[0] = "idle"
       THEN JmShutdownBegin(0, FALSE)
       ELSE /\ mShutting
            /\ mTimer' = FALSE
            /\ UNCHANGED <<mBrowser, mShutting, mContexts, mCtxCount, mEngCount, mAlive,
                           mCloseCalls, mpc, mop, mLocal, mVisited>>
    /\ JmFrame

\* shutdown() lines 87-97: one iteration of the loop over this.browserContexts up to
\* its `await context.close()` (errors are caught); after the last one the set is
\* cleared and this.browser.close() is called
JmShutdownContexts(c) ==
    /\ mpc[c] = "sdContexts"
    /\ IF mContexts \ mVisited[c] # {}
       THEN /\ mVisited' = [mVisited EXCEPT ![c] =
                              @ \cup {CHOOSE x \in mContexts \ @ :
                                          \A y \in mContexts \ @ : x <= y}]
            /\ UNCHANGED <<mContexts, mCloseCalls, mLocal, mpc>>
       ELSE /\ mContexts' = {}
            /\ mLocal' = [mLocal EXCEPT ![c] = mBrowser]
            /\ mCloseCalls' = [e \in JmEngines |->
                                 IF e = mBrowser THEN mCloseCalls[e] + 1 ELSE mCloseCalls[e]]
            /\ mpc' = [mpc EXCEPT ![c] = "sdBrowser"]
            /\ UNCHANGED mVisited
    /\ UNCHANGED <<mBrowser, mTimer, mShutting, mCtxCount, mEngCount, mAlive, mop>>
    /\ JmFrame

\* shutdown() lines 97-100: browser.close() resolved, the handle and the flag are
\* cleared and shutdown() returns; or it rejected and shutdown() throws from line 97
JmShutdownBrowser(c) ==
    /\ mpc[c] = "sdBrowser"
    /\ \E ok \in BOOLEAN :
          IF ok
          THEN /\ mAlive' = mAlive \ {mLocal[c]}
               /\ mBrowser' = 0
               /\ mShutting' = FALSE
               /\ mpc' = [mpc EXCEPT ![c] = "sdReturned"]
          ELSE /\ mpc' = [mpc EXCEPT ![c] = "sdThrew"]
               /\ UNCHANGED <<mAlive, mBrowser, mShutting>>
    /\ UNCHANGED <<mTimer, mContexts, mCtxCount, mEngCount, mCloseCalls, mop, mLocal,
                   mVisited>>
    /\ JmFrame

\* the caller of a finished shutdown() goes on
JmShutdownAck(c) ==
    /\ mpc[c] \in {"sdReturned", "sdThrew"}
    /\ mpc' = [mpc EXCEPT ![c] = "idle"]
    /\ mop' = [mop EXCEPT ![c] = "none"]
    /\ mLocal' = [mLocal EXCEPT ![c] = 0]
    /\ mVisited' = [mVisited EXCEPT ![c] = {}]
    /\ UNCHANGED <<mBrowser, mTimer, mShutting, mContexts, mCtxCount, mEngCount, mAlive,
                   mCloseCalls>>
    /\ JmFrame

\* keepAlive() lines 116-119
JmKeepAlive ==
    /\ ~mTimer
    /\ mTimer' = TRUE
    /\ UNCHANGED <<mBrowser, mShutting, mContexts, mCtxCount, mEngCount, mAlive,
                   mCloseCalls, mpc, mop, mLocal, mVisited>>
    /\ JmFrame

JmNext ==
    \/ \E c \in JmCallers, op \in {"get", "acquire"} : JmGetBrowserInstance(c, op)
    \/ \E c \in JmCallers : JmLaunchDone(c)
    \/ \E c \in JmCallers : JmLaunchFail(c)
    \/ \E c \in JmCallers : JmNewContext(c)
    \/ \E x \in JmContexts : JmReleaseContext(x)
    \/ \E c \in JmCallers : JmShutdown(c)
    \/ JmTimerFire
    \/ \E c \in JmCallers : JmShutdownContexts(c)
    \/ \E c \in JmCallers : JmShutdownBrowser(c)
    \/ \E c \in JmCallers : JmShutdownAck(c)
    \/ JmKeepAlive

(***************************************************************************)
(* JS BrowserContextPool: the maxPoolSize option                           *)
(***************************************************************************)

\* bounds of the configuration model
MaxCfgOption == 2
NumCfgCallers == 2
MaxCfgContexts == 2

\* `options.maxPoolSize || 5`
DefaultMaxPoolSize == 5

CfgCallers == 1..NumCfgCallers

\* options.maxPoolSize: left out, or a number
CfgOptions == [given : BOOLEAN, value : 0..MaxCfgOption]

\* the pool before its constructor ran
CfgInit ==
    /\ qStage = "none"
    /\ qOption = [given |-> FALSE, value |-> 0]
    /\ qMax = 0
    /\ qIdle = 0
    /\ qInUse = 0
    /\ qCreated = 0
    /\ qpc = [c \in CfgCallers |-> "idle"]
    /\ qError = FALSE

\* JS truthiness of options.maxPoolSize: undefined and 0 are falsy
Truthy(o) == o.given /\ o.value # 0

\* line 4: this.maxPoolSize = options.maxPoolSize || 5
EffectiveMaxPoolSize(o) == IF Truthy(o) THEN o.value ELSE DefaultMaxPoolSize

\* new BrowserContextPool(browserManager, options): no option is validated
CfgConstruct(o) ==
    /\ qStage = "none"
    /\ (~o.given => o.value = 0)
    /\ qStage' = "built"
    /\ qOption' = o
    /\ qMax' = EffectiveMaxPoolSize(o)
    /\ UNCHANGED <<qIdle, qInUse, qCreated, qpc, qError>>
    /\ CfgFrame

\* acquireContext() up to its first await or its return (lines 34-54)
CfgAcquire(c) ==
    /\ qStage = "built"
    /\ qpc[c] = "idle"
    /\ IF qIdle > 0
       THEN /\ qIdle' = qIdle - 1
            /\ qInUse' = qInUse + 1
            /\ qpc' = [qpc EXCEPT ![c] = "holding"]
       ELSE /\ qpc' = [qpc EXCEPT ![c] = IF qInUse < qMax THEN "creating" ELSE "polling"]
            /\ UNCHANGED <<qIdle, qInUse>>
    /\ UNCHANGED <<qStage, qOption, qMax, qCreated, qError>>
    /\ CfgFrame

\* await this.createContext() resolved (lines 43-50)
CfgCreateDone(c) ==
    /\ qpc[c] = "creating"
    /\ qCreated < MaxCfgContexts
    /\ qCreated' = qCreated + 1
    /\ qInUse' = qInUse + 1
    /\ qpc' = [qpc EXCEPT ![c] = "holding"]
    /\ UNCHANGED <<qStage, qOption, qMax, qIdle, qError>>
    /\ CfgFrame

\* await this.createContext() rejected: acquireContext() reports the launch error
CfgCreateFail(c) ==
    /\ qpc[c] = "creating"
    /\ qpc' = [qpc EXCEPT ![c] = "idle"]
    /\ qError' = TRUE
    /\ UNCHANGED <<qStage, qOption, qMax, qIdle, qInUse, qCreated>>
    /\ CfgFrame

\* the 100 ms polling callback finds an idle entry (lines 56-61)
CfgPollTick(c) ==
    /\ qpc[c] = "polling"
    /\ qIdle > 0
    /\ qIdle' = qIdle - 1
    /\ qInUse' = qInUse + 1
    /\ qpc' = [qpc EXCEPT ![c] = "holding"]
    /\ UNCHANGED <<qStage, qOption, qMax, qCreated, qError>>
    /\ CfgFrame

\* releaseContext(context) by its holder (lines 68-72)
CfgRelease(c) ==
    /\ qpc[c] = "holding"
    /\ qpc' = [qpc EXCEPT ![c] = "idle"]
    /\ qInUse' = qInUse - 1
    /\ qIdle' = qIdle + 1
    /\ UNCHANGED <<qStage, qOption, qMax, qCreated, qError>>
    /\ CfgFrame

CfgNext ==
    \/ \E o \in CfgOptions : CfgConstruct(o)
    \/ \E c \in CfgCallers : CfgAcquire(c)
    \/ \E c \in CfgCallers : CfgCreateDone(c)
    \/ \E c \in CfgCallers : CfgCreateFail(c)
    \/ \E c \in CfgCallers : CfgPollTick(c)
    \/ \E c \in CfgCallers : CfgRelease(c)

(***************************************************************************)
(* SetInactivityTimeout (Go) and setInactivityTimeout (JS)                 *)
(***************************************************************************)

\* bounds of the timeout model: durations range over -MaxDuration..MaxDuration
MaxDuration == 2
MaxTmoContexts == 1

\* inactivityTimeout: 1 * time.Minute
GoDefaultTimeout == 1

\* options.timeout || 60000
JsDefaultTimeout == 60000

Durations == (0 - MaxDuration)..MaxDuration

\* both managers as constructed
TmoInit ==
    /\ tgTimeout = GoDefaultTimeout
    /\ tgArmed = FALSE
    /\ tgDur = 0
    /\ tgArg = 0
    /\ tgErr = FALSE
    /\ tgTick = FALSE
    /\ tjTimeout = JsDefaultTimeout
    /\ tjArmed = FALSE
    /\ tjDur = 0
    /\ tjArg = 0
    /\ tjErr = FALSE
    /\ tjTick = FALSE
    /\ tjContexts = 0

\* BrowserInstanceManager.js line 105, for a number: timeoutMs < 0
JsRejects(d) == d < 0

\* Go SetInactivityTimeout(timeout): the field is assigned under the lock; the
\* function has no error result and checks nothing
GoSetInactivityTimeout(d) ==
    /\ tgTimeout' = d
    /\ tgArg' = d
    /\ tgErr' = FALSE
    /\ tgTick' = ~tgTick
    /\ UNCHANGED <<tgArmed, tgDur, tjTimeout, tjArmed, tjDur, tjArg, tjErr, tjTick,
                   tjContexts>>
    /\ TmoFrame

\* Go ResetInactivityTimer(): time.AfterFunc(bim.inactivityTimeout, ...)
GoResetTimer ==
    /\ tgArmed' = TRUE
    /\ tgDur' = tgTimeout
    /\ UNCHANGED <<tgTimeout, tgArg, tgErr, tgTick, tjTimeout, tjArmed, tjDur, tjArg,
                   tjErr, tjTick, tjContexts>>
    /\ TmoFrame

\* the Go timer fires
GoTimerExpires ==
    /\ tgArmed
    /\ tgArmed' = FALSE
    /\ UNCHANGED <<tgTimeout, tgDur, tgArg, tgErr, tgTick, tjTimeout, tjArmed, tjDur,
                   tjArg, tjErr, tjTick, tjContexts>>
    /\ TmoFrame

\* JS setInactivityTimeout(timeoutMs): throws for a negative number; otherwise stores
\* it and resets the timer at once when no context is active
JsSetInactivityTimeout(d) ==
    /\ tjArg' = d
    /\ tjTick' = ~tjTick
    /\ IF JsRejects(d)
       THEN /\ tjErr' = TRUE
            /\ UNCHANGED <<tjTimeout, tjArmed, tjDur>>
       ELSE /\ tjErr' = FALSE
            /\ tjTimeout' = d
            /\ IF tjContexts = 0
               THEN tjArmed' = TRUE /\ tjDur' = d
               ELSE UNCHANGED <<tjArmed, tjDur>>
    /\ UNCHANGED <<tgTimeout, tgArmed, tgDur, tgArg, tgErr, tgTick, tjContexts>>
    /\ TmoFrame

\* JS resetInactivityTimer() via keepAlive(): setTimeout(..., this.inactivityTimeout)
JsResetTimer ==
    /\ tjArmed' = TRUE
    /\ tjDur' = tjTimeout
    /\ UNCHANGED <<tgTimeout, tgArmed, tgDur, tgArg, tgErr, tgTick, tjTimeout, tjArg,
                   tjErr, tjTick, tjContexts>>
    /\ TmoFrame

\* JS acquireBrowserContext(): the context is added and the timer reset
JsContextAdded ==
    /\ tjContexts < MaxTmoContexts
    /\ tjContexts' = tjContexts + 1
    /\ tjArmed' = TRUE
    /\ tjDur' = tjTimeout
    /\ UNCHANGED <<tgTimeout, tgArmed, tgDur, tgArg, tgErr, tgTick, tjTimeout, tjArg,
                   tjErr, tjTick>>
    /\ TmoFrame

\* JS releaseBrowserContext(context): the timer is reset when no context is left
JsContextRemoved ==
    /\ tjContexts > 0
    /\ tjContexts' = tjContexts - 1
    /\ IF tjContexts' = 0
       THEN tjArmed' = TRUE /\ tjDur' = tjTimeout
       ELSE UNCHANGED <<tjArmed, tjDur>>
    /\ UNCHANGED <<tgTimeout, tgArmed, tgDur, tgArg, tgErr, tgTick, tjTimeout, tjArg,
                   tjErr, tjTick>>
    /\ TmoFrame

\* the JS timeout fires
JsTimerExpires ==
    /\ tjArmed
    /\ tjArmed' = FALSE
    /\ UNCHANGED <<tgTimeout, tgArmed, tgDur, tgArg, tgErr, tgTick, tjTimeout, tjDur,
                   tjArg, tjErr, tjTick, tjContexts>>
    /\ TmoFrame

\* the Go manager's timeout setting
TmoGoNext ==
    \/ \E d \in Durations : GoSetInactivityTimeout(d)
    \/ GoResetTimer
    \/ GoTimerExpires

\* the JS manager's timeout setting
TmoJsNext ==
    \/ \E d \in Durations : JsSetInactivityTimeout(d)
    \/ JsResetTimer
    \/ JsContextAdded
    \/ JsContextRemoved
    \/ JsTimerExpires

TmoNext == TmoGoNext \/ TmoJsNext

(***************************************************************************)
(* Go SummaryTool.extractLinks with net/url's Parse, ResolveReference and  *)
(* String. A URL string is the sequence of its tokens: a scheme with its   *)
(* colon, an authority with its two slashes, "/" and path segments.        *)
(***************************************************************************)

\* bound of the link model: anchors in a document
MaxAnchors == 3

Schemes == {"http:", "https:"}
Authorities == {"//h", "//example.com"}

\* href attribute values: /link1, https://example.com/link2, link3.html, ../link1,
\* the empty string and the unparseable ":bad"
Hrefs ==
    { <<"/", "link1">>, <<"https:", "//example.com", "/", "link2">>, <<"link3.html">>,
      <<"..", "/", "link1">>, <<>>, <<":", "bad">> }

\* baseURL arguments: http://h/, http://h, http://h/dir/page.html and ":bad"
BaseURLs ==
    { <<"http:", "//h", "/">>, <<"http:", "//h">>,
      <<"http:", "//h", "/", "dir", "/", "page.html">>, <<":", "bad">> }

\* the documents: every sequence of at most MaxAnchors href values
AnchorLists == UNION {[1..n -> Hrefs] : n \in 0..MaxAnchors}

LinkInit ==
    /\ lpc = "new"
    /\ lAnchors = <<>>
    /\ lBase = <<>>
    /\ lIdx = 0
    /\ lLinks = <<>>
    /\ lVisited = {}
    /\ lErr = FALSE

\* url.Parse fails on a string that starts with a colon (missing protocol scheme)
ParseOk(s) == s = <<>> \/ s[1] # ":"

\* url.Parse: scheme, then authority, the rest is the path
Parse(s) ==
    LET scheme == IF s # <<>> /\ s[1] \in Schemes THEN s[1] ELSE ""
        r1 == IF scheme = "" THEN s ELSE Tail(s)
        host == IF r1 # <<>> /\ r1[1] \in Authorities THEN r1[1] ELSE ""
        r2 == IF host = "" THEN r1 ELSE Tail(r1)
    IN  [Scheme |-> scheme, Host |-> host, Path |-> r2]

\* strings.LastIndex(base, "/") + 1 in resolvePath: length of the prefix of p that
\* ends with its last "/", 0 without one
RECURSIVE LastSlash(_)
LastSlash(p) ==
    IF p = <<>> THEN 0
    ELSE IF p[Len(p)] = "/" THEN Len(p)
    ELSE LastSlash(SubSeq(p, 1, Len(p) - 1))

\* resolvePath: the reference path placed on the base path
Full(base, ref) ==
    IF ref = <<>> THEN base
    ELSE IF ref[1] # "/" THEN SubSeq(base, 1, LastSlash(base)) \o ref
    ELSE ref

\* resolvePath's strings.Cut loop: the elements between the slashes of p, cur being
\* the element under construction
RECURSIVE Cut(_, _)
Cut(p, cur) ==
    IF p = <<>> THEN <<cur>>
    ELSE IF p[1] = "/" THEN <<cur>> \o Cut(Tail(p), "")
    ELSE Cut(Tail(p), p[1])

\* resolvePath's loop body: "." is dropped, ".." removes the last element written,
\* any other element is written; dst holds the elements written after the leading "/"
RECURSIVE Clean(_, _)
Clean(elems, dst) ==
    IF elems = <<>> THEN dst
    ELSE LET e == Head(elems) IN
         Clean(Tail(elems),
               CASE e = "." -> IF dst = <<>> THEN <<"">> ELSE dst
                 [] e = ".." -> IF Len(dst) <= 1 THEN <<>> ELSE SubSeq(dst, 1, Len(dst) - 1)
                 [] OTHER -> Append(dst, e))

\* the elements joined by "/"
RECURSIVE Join(_)
Join(elems) ==
    IF elems = <<>> THEN <<>>
    ELSE (IF elems[1] = "" THEN <<>> ELSE <<elems[1]>>)
         \o (IF Len(elems) > 1 THEN <<"/">> \o Join(Tail(elems)) ELSE <<>>)

\* resolvePath's result: the leading "/" and the elements, one "/" removed when
\* that makes two
PathString(dst) ==
    IF Len(dst) >= 2 /\ dst[1] = "" THEN Join(dst) ELSE <<"/">> \o Join(dst)

\* net/url resolvePath(base, ref)
resolvePath(base, ref) ==
    LET full == Full(base, ref) IN
    IF full = <<>> THEN <<>>
    ELSE LET elems == Cut(full, "")
             dst == Clean(elems, <<>>)
         IN  PathString(IF elems[Len(elems)] \in {".", ".."} THEN Append(dst, "") ELSE dst)

\* u.ResolveReference(ref)
ResolveReference(u, ref) ==
    LET scheme == IF ref.Scheme = "" THEN u.Scheme ELSE ref.Scheme IN
    IF ref.Scheme # "" \/ ref.Host # ""
    THEN [Scheme |-> scheme, Host |-> ref.Host, Path |-> resolvePath(ref.Path, <<>>)]
    ELSE [Scheme |-> scheme, Host |-> u.Host, Path |-> resolvePath(u.Path, ref.Path)]

\* u.String()
String(u) ==
    (IF u.Scheme # "" THEN <<u.Scheme>> ELSE <<>>)
    \o (IF u.Host # "" THEN <<u.Host>> ELSE <<>>)
    \o (IF u.Path # <<>> /\ u.Path[1] # "/" /\ u.Host # "" THEN <<"/">> ELSE <<>>)
    \o u.Path

\* line 124: base.ResolveReference(parsedURL).String()
ResolvedURL(base, href) == String(ResolveReference(Parse(base), Parse(href)))

\* extractLinks(htmlContent, baseURL), lines 102-113: the document is parsed and the
\* base URL is parsed; a base URL that does not parse ends the call with an error
ExtractLinks(anchors, base) ==
    /\ lpc = "new"
    /\ lAnchors' = anchors
    /\ lBase' = base
    /\ IF ParseOk(base)
       THEN lpc' = "walk" /\ lIdx' = 1 /\ lErr' = FALSE
       ELSE lpc' = "done" /\ lIdx' = 0 /\ lErr' = TRUE
    /\ UNCHANGED <<lLinks, lVisited>>
    /\ LinkFrame

\* mutant of Visited: no resolved value counts as seen
VisitedNever(v, x) == FALSE

\* line 125: `_, ok := visited[resolvedURL]`
Visited(v, x) == x \in v

\* lines 115-131: the traversal reaches the next anchor; an href that does not parse
\* is logged and skipped, a resolved value not seen before is appended and marked
VisitAnchor ==
    /\ lpc = "walk"
    /\ lIdx <= Len(lAnchors)
    /\ lIdx' = lIdx + 1
    /\ LET href == lAnchors[lIdx] IN
       IF ~ParseOk(href)
       THEN UNCHANGED <<lLinks, lVisited>>
       ELSE LET resolvedURL == ResolvedURL(lBase, href) IN
            IF Visited(lVisited, resolvedURL)
            THEN UNCHANGED <<lLinks, lVisited>>
            ELSE /\ lLinks' = Append(lLinks, resolvedURL)
                 /\ lVisited' = lVisited \cup {resolvedURL}
    /\ UNCHANGED <<lpc, lAnchors, lBase, lErr>>
    /\ LinkFrame

\* lines 138-140: the traversal is over, `return links, nil`
ExtractReturn ==
    /\ lpc = "walk"
    /\ lIdx > Len(lAnchors)
    /\ lpc' = "done"
    /\ UNCHANGED <<lAnchors, lBase, lIdx, lLinks, lVisited, lErr>>
    /\ LinkFrame

LinkNext ==
    \/ \E anchors \in AnchorLists, base \in BaseURLs : ExtractLinks(anchors, base)
    \/ VisitAnchor
    \/ ExtractReturn

(***************************************************************************)
(* JS BrowserContextPool together with the BrowserInstanceManager whose    *)
(* engine its contexts are created on                                      *)
(***************************************************************************)

\* bounds of the pool-on-engine model
NumPeCallers == 3
MaxPeEngines == 2
MaxPeContexts == 2

PeCallers == 1..NumPeCallers
PeEngines == 1..MaxPeEngines
PeContexts == 1..MaxPeContexts

PeInit ==
    /\ eBrowser = 0
    /\ eShutting = FALSE
    /\ eTimer = FALSE
    /\ eEngCount = 0
    /\ eDead = {}
    /\ ePool = <<>>
    /\ eInUse = {}
    /\ eCtxEngine = [x \in PeContexts |-> 0]
    /\ eCtxCount = 0
    /\ epc = [c \in PeCallers |-> "idle"]
    /\ eLocal = [c \in PeCallers |-> 0]
    /\ eHeld = [c \in PeCallers |-> 0]

\* BrowserContextPool.js lines 35-38 and 58-61: this.pool.shift() and
\* this.inUse.set(); neither the manager nor the context's state is consulted
PeTakeIdle(c) ==
    /\ Len(ePool) > 0
    /\ ePool' = Tail(ePool)
    /\ eInUse' = eInUse \cup {Head(ePool)}
    /\ eHeld' = [eHeld EXCEPT ![c] = Head(ePool)]
    /\ epc' = [epc EXCEPT ![c] = "holding"]

\* acquireContext() lines 32-43, up to its return or its first await; with room in
\* the pool createContext() is entered
PeAcquire(c) ==
    /\ epc[c] = "idle"
    /\ IF Len(ePool) > 0
       THEN PeTakeIdle(c)
       ELSE /\ epc' = [epc EXCEPT ![c] =
                        IF Cardinality(eInUse) < maxPoolSize THEN "getBrowser" ELSE "polling"]
            /\ UNCHANGED <<ePool, eInUse, eHeld>>
    /\ UNCHANGED <<eBrowser, eShutting, eTimer, eEngCount, eDead, eCtxEngine, eCtxCount,
                   eLocal>>
    /\ PeFrame

\* the polling callback of lines 56-62 finds an idle entry
PePollTick(c) ==
    /\ epc[c] = "polling"
    /\ PeTakeIdle(c)
    /\ UNCHANGED <<eBrowser, eShutting, eTimer, eEngCount, eDead, eCtxEngine, eCtxCount,
                   eLocal>>
    /\ PeFrame

\* createContext() line 28, getBrowserInstance() lines 20-37: with a handle the timer
\* is reset and the handle returned, otherwise the call suspends on the launch
PeGetBrowser(c) ==
    /\ epc[c] = "getBrowser"
    /\ IF eBrowser = 0
       THEN /\ epc' = [epc EXCEPT ![c] = "launching"]
            /\ UNCHANGED <<eTimer, eLocal>>
       ELSE /\ epc' = [epc EXCEPT ![c] = "newContext"]
            /\ eLocal' = [eLocal EXCEPT ![c] = eBrowser]
            /\ eTimer' = TRUE
    /\ UNCHANGED <<eBrowser, eShutting, eEngCount, eDead, ePool, eInUse, eCtxEngine,
                   eCtxCount, eHeld>>
    /\ PeFrame

\* getBrowserInstance() lines 23-37: the launch resolved
PeLaunchDone(c) ==
    /\ epc[c] = "launching"
    /\ eEngCount < MaxPeEngines
    /\ eEngCount' = eEngCount + 1
    /\ eBrowser' = eEngCount + 1
    /\ eLocal' = [eLocal EXCEPT ![c] = eEngCount + 1]
    /\ eTimer' = TRUE
    /\ epc' = [epc EXCEPT ![c] = "newContext"]
    /\ UNCHANGED <<eShutting, eDead, ePool, eInUse, eCtxEngine, eCtxCount, eHeld>>
    /\ PeFrame

\* the launch rejected: createContext() and acquireContext() throw
PeLaunchFail(c) ==
    /\ epc[c] = "launching"
    /\ epc' = [epc EXCEPT ![c] = "idle"]
    /\ UNCHANGED <<eBrowser, eShutting, eTimer, eEngCount, eDead, ePool, eInUse,
                   eCtxEngine, eCtxCount, eLocal, eHeld>>
    /\ PeFrame

\* createContext() line 29 and acquireContext() lines 44-50: browser.newContext()
\* resolved on a running engine and the context is handed out, or it rejected
PeNewContext(c) ==
    /\ epc[c] = "newContext"
    /\ IF eLocal[c] \notin eDead /\ eCtxCount < MaxPeContexts
       THEN /\ eCtxCount' = eCtxCount + 1
            /\ eCtxEngine' = [eCtxEngine EXCEPT ![eCtxCount + 1] = eLocal[c]]
            /\ eInUse' = eInUse \cup {eCtxCount + 1}
            /\ eHeld' = [eHeld EXCEPT ![c] = eCtxCount + 1]
            /\ epc' = [epc EXCEPT ![c] = "holding"]
       ELSE /\ epc' = [epc EXCEPT ![c] = "idle"]
            /\ UNCHANGED <<eCtxCount, eCtxEngine, eInUse, eHeld>>
    /\ eLocal' = [eLocal EXCEPT ![c] = 0]
    /\ UNCHANGED <<eBrowser, eShutting, eTimer, eEngCount, eDead, ePool>>
    /\ PeFrame

\* releaseContext(context) lines 67-77 by the holder: the entry is pushed on the idle
\* pool and the manager's inactivity timer is reset
PeRelease(c) ==
    /\ epc[c] = "holding"
    /\ eInUse' = eInUse \ {eHeld[c]}
    /\ ePool' = Append(ePool, eHeld[c])
    /\ eTimer' = TRUE
    /\ eHeld' = [eHeld EXCEPT ![c] = 0]
    /\ epc' = [epc EXCEPT ![c] = "idle"]
    /\ UNCHANGED <<eBrowser, eShutting, eEngCount, eDead, eCtxEngine, eCtxCount, eLocal>>
    /\ PeFrame

\* shutdown() lines 77-97 up to `await this.browser.close()`: this.browserContexts
\* holds no context of the pool (createContext calls browser.newContext() itself),
\* so the loop closes none of them and the pool is not told
PeShutdownBegin ==
    /\ eBrowser # 0
    /\ ~eShutting
    /\ eShutting' = TRUE
    /\ eTimer' = FALSE
    /\ UNCHANGED <<eBrowser, eEngCount, eDead, ePool, eInUse, eCtxEngine, eCtxCount, epc,
                   eLocal, eHeld>>
    /\ PeFrame

\* the inactivity timeout elapses (lines 64-67) and calls shutdown()
PeTimerFire ==
    /\ eTimer
    /\ IF eBrowser # 0 /\ ~eShutting
       THEN PeShutdownBegin
       ELSE /\ eTimer' = FALSE
            /\ UNCHANGED <<eBrowser, eShutting, eEngCount, eDead, ePool, eInUse,
                           eCtxEngine, eCtxCount, epc, eLocal, eHeld>>
            /\ PeFrame

\* an explicit shutdown() call with an engine present
PeShutdown == PeShutdownBegin

\* shutdown() lines 97-100: browser.close() resolved; the engine and every context
\* created on it are gone, the handle and the flag are cleared
PeShutdownDone ==
    /\ eShutting
    /\ eDead' = eDead \cup {eBrowser}
    /\ eBrowser' = 0
    /\ eShutting' = FALSE
    /\ UNCHANGED <<eTimer, eEngCount, ePool, eInUse, eCtxEngine, eCtxCount, epc, eLocal,
                   eHeld>>
    /\ PeFrame

PeNext ==
    \/ \E c \in PeCallers : PeAcquire(c)
    \/ \E c \in PeCallers : PePollTick(c)
    \/ \E c \in PeCallers : PeGetBrowser(c)
    \/ \E c \in PeCallers : PeLaunchDone(c)
    \/ \E c \in PeCallers : PeLaunchFail(c)
    \/ \E c \in PeCallers : PeNewContext(c)
    \/ \E c \in PeCallers : PeRelease(c)
    \/ PeTimerFire
    \/ PeShutdown
    \/ PeShutdownDone

(***************************************************************************)
(* Go CapturePageSummary together with the engine manager's inactivity     *)
(* timer: which engine a capture's pages are on, and when it is closed     *)
(***************************************************************************)

\* bounds of the capture-on-engine model
NumKtCaptures == 2
MaxKtEngines == 3

KtCaptures == 1..NumKtCaptures

KtInit ==
    /\ kBrowser = 0
    /\ kTimer = FALSE
    /\ kEngCount = 0
    /\ kDead = {}
    /\ kpc = [k \in KtCaptures |-> "idle"]
    /\ kEngine = [k \in KtCaptures |-> 0]
    /\ kNavEngine = [k \in KtCaptures |-> 0]

\* GetBrowserInstance (part_002 lines 41-73) as NewPage calls it: the engine present
\* is returned, or one is launched under the lock; either way the timer is reset.
\* The engine the call returns:
KtEngineGot == IF kBrowser # 0 THEN kBrowser ELSE kEngCount + 1

\* NewPage lines 70-80 on a launch that succeeds
KtGetBrowser ==
    /\ (kBrowser = 0 => kEngCount < MaxKtEngines)
    /\ kBrowser' = KtEngineGot
    /\ kEngCount' = IF kBrowser # 0 THEN kEngCount ELSE kEngCount + 1
    /\ kTimer' = TRUE

\* CapturePageSummary line 41: st.playwright.NewPage(ctx)
KtNewPage(k) ==
    /\ kpc[k] = "idle"
    /\ KtGetBrowser
    /\ kEngine' = [kEngine EXCEPT ![k] = KtEngineGot]
    /\ kpc' = [kpc EXCEPT ![k] = "navigate"]
    /\ UNCHANGED <<kDead, kNavEngine>>
    /\ KtFrame

\* CapturePageSummary lines 53-60 up to page.Goto: the interception is set up and
\* NavigateToURL opens its page through NewPage, that is GetBrowserInstance again
KtNavNewPage(k) ==
    /\ kpc[k] = "navigate"
    /\ KtGetBrowser
    /\ kNavEngine' = [kNavEngine EXCEPT ![k] = KtEngineGot]
    /\ kpc' = [kpc EXCEPT ![k] = "goto"]
    /\ UNCHANGED <<kDead, kEngine>>
    /\ KtFrame

\* a step of the capture that works on the navigated page fails when that page's
\* engine has been closed
KtAfter(k, next) == IF kNavEngine[k] \in kDead THEN "failed" ELSE next

\* NavigateToURL lines 105-120: page.Goto; nothing here touches the manager
KtGoto(k) ==
    /\ kpc[k] = "goto"
    /\ kpc' = [kpc EXCEPT ![k] = KtAfter(k, "read")]
    /\ UNCHANGED <<kBrowser, kTimer, kEngCount, kDead, kEngine, kNavEngine>>
    /\ KtFrame

\* CapturePageSummary lines 66-98: content, screenshot, links, return; nothing here
\* touches the manager
KtRead(k) ==
    /\ kpc[k] = "read"
    /\ kpc' = [kpc EXCEPT ![k] = KtAfter(k, "done")]
    /\ UNCHANGED <<kBrowser, kTimer, kEngCount, kDead, kEngine, kNavEngine>>
    /\ KtFrame

\* the inactivity timer fires (part_002 lines 115-127) and CloseBrowserInstance runs
\* (lines 76-101): the engine is closed whatever is running on it, or its Close
\* fails and the handle stays
KtTimerFire ==
    /\ kTimer
    /\ kTimer' = FALSE
    /\ \E closeOk \in BOOLEAN :
          IF kBrowser # 0 /\ closeOk
          THEN /\ kDead' = kDead \cup {kBrowser}
               /\ kBrowser' = 0
          ELSE UNCHANGED <<kDead, kBrowser>>
    /\ UNCHANGED <<kEngCount, kpc, kEngine, kNavEngine>>
    /\ KtFrame

KtNext ==
    \/ \E k \in KtCaptures : KtNewPage(k)
    \/ \E k \in KtCaptures : KtNavNewPage(k)
    \/ \E k \in KtCaptures : KtGoto(k)
    \/ \E k \in KtCaptures : KtRead(k)
    \/ KtTimerFire

(***************************************************************************)
(* The goroutines that read and write pi.pendingRequests and               *)
(* pi.capturedNetworkData: the route and response handlers, run by the     *)
(* playwright connection (here one invocation at a time, the dispatch most *)
(* favourable to the code), and the goroutines of CapturePageSummary.      *)
(* No statement of playwright_integration.go takes a lock.                 *)
(***************************************************************************)

\* bounds of the recorder-access model
NumRaCallers == 2
MaxRaEvents == 2

RaCallers == 1..NumRaCallers

RaInit ==
    /\ aHandler = "none"
    /\ aEvents = 0
    /\ aCaller = [k \in RaCallers |-> "idle"]

\* the next position of a capture goroutine: SetupNetworkInterception assigns the
\* slice (line 161) and the map (line 162), the page then loads while the goroutine
\* waits in NavigateToURL and the reads, and GetCapturedNetworkData reads the slice
\* (line 254, called from summary_tool.go line 79)
RaCallerAfter(pos) ==
    CASE pos = "idle" -> "resetData"
      [] pos = "resetData" -> "resetPending"
      [] pos = "resetPending" -> "loading"
      [] pos = "loading" -> "readData"
      [] OTHER -> "done"

\* one statement of a capture goroutine; nothing makes it wait for a handler
RaCallerStep(k) ==
    /\ aCaller[k] # "done"
    /\ aCaller' = [aCaller EXCEPT ![k] = RaCallerAfter(aCaller[k])]
    /\ UNCHANGED <<aHandler, aEvents>>
    /\ RaFrame

\* a page whose handlers are installed and that is not closed yet
RaPageLive == \E k \in RaCallers : aCaller[k] \in {"loading", "readData"}

\* the connection invokes the route handler (lines 166-200) or the response handler
\* (lines 206-246) for an event of a live page
RaHandlerStart(kind) ==
    /\ aHandler = "none"
    /\ RaPageLive
    /\ aEvents < MaxRaEvents
    /\ aEvents' = aEvents + 1
    /\ aHandler' = IF kind = "route" THEN "routeDetails" ELSE "lookup"
    /\ UNCHANGED aCaller
    /\ RaFrame

\* the next position of a handler: the route handler collects the request details,
\* writes the map (line 196) and continues the route; the response handler reads the
\* map (line 209), fetches headers and body, appends to the slice (line 239) and
\* deletes from the map (line 245)
RaHandlerAfter(pos) ==
    CASE pos = "routeDetails" -> "storePending"
      [] pos = "storePending" -> "continue"
      [] pos = "lookup" -> "fetchBody"
      [] pos = "fetchBody" -> "appendData"
      [] pos = "appendData" -> "deletePending"
      [] OTHER -> "none"

\* one statement of the handler in progress; nothing makes it wait for a capture
\* goroutine
RaHandlerStep ==
    /\ aHandler # "none"
    /\ aHandler' = RaHandlerAfter(aHandler)
    /\ UNCHANGED <<aEvents, aCaller>>
    /\ RaFrame

\* positions at which the goroutine is reading or writing the slice, or the map
RaOnData(pos) == pos \in {"resetData", "readData", "appendData"}
RaOnPending(pos) == pos \in {"resetPending", "storePending", "lookup", "deletePending"}

RaNext ==
    \/ \E k \in RaCallers : RaCallerStep(k)
    \/ \E kind \in {"route", "response"} : RaHandlerStart(kind)
    \/ RaHandlerStep

(***************************************************************************)
(* The Go manager's timer fields under its public entry points, statement  *)
(* by statement.  GetBrowserInstance (engine present) runs                 *)
(* ResetInactivityTimer between Lock and Unlock; KeepAlive and a direct    *)
(* ResetInactivityTimer run the same statements without touching bim.mu.   *)
(***************************************************************************)

\* bounds of the timer-field model
NumKaCallers == 2
MaxKaResets == 3

KaCallers == 1..NumKaCallers
KaTimers == 1..MaxKaResets
KaEntries == {"GetBrowserInstance", "KeepAlive", "ResetInactivityTimer"}

KaInit ==
    /\ yMu = 0
    /\ yTimer = 0
    /\ yCancel = 0
    /\ yTokCount = 0
    /\ yTokDone = [t \in KaTimers |-> FALSE]
    /\ yTimerCount = 0
    /\ yTimerState = [t \in KaTimers |-> "none"]
    /\ yTimerTok = [t \in KaTimers |-> 0]
    /\ yCalls = 0
    /\ ypc = [c \in KaCallers |-> "idle"]
    /\ yCtx = [c \in KaCallers |-> 0]

\* an entry point is called: GetBrowserInstance takes bim.mu first, the other two
\* go straight to the first statement of ResetInactivityTimer
KaCall(c, entry) ==
    /\ ypc[c] = "idle"
    /\ yCalls < MaxKaResets
    /\ IF entry = "GetBrowserInstance"
         THEN yMu = 0 /\ yMu' = c
         ELSE yMu' = yMu
    /\ yCalls' = yCalls + 1
    /\ ypc' = [ypc EXCEPT ![c] = "stop"]
    /\ UNCHANGED <<yTimer, yCancel, yTokCount, yTokDone, yTimerCount, yTimerState,
                   yTimerTok, yCtx>>
    /\ KaFrame

\* if bim.inactivityTimer != nil { bim.inactivityTimer.Stop() }
KaStop(c) ==
    /\ ypc[c] = "stop"
    /\ yTimerState' = IF yTimer # 0 /\ yTimerState[yTimer] = "pending"
                        THEN [yTimerState EXCEPT ![yTimer] = "stopped"]
                        ELSE yTimerState
    /\ ypc' = [ypc EXCEPT ![c] = "cancel"]
    /\ UNCHANGED <<yMu, yTimer, yCancel, yTokCount, yTokDone, yTimerCount, yTimerTok,
                   yCalls, yCtx>>
    /\ KaFrame

\* if bim.cancelTimeout != nil { bim.cancelTimeout() }
KaCancel(c) ==
    /\ ypc[c] = "cancel"
    /\ yTokDone' = IF yCancel # 0 THEN [yTokDone EXCEPT ![yCancel] = TRUE] ELSE yTokDone
    /\ ypc' = [ypc EXCEPT ![c] = "newToken"]
    /\ UNCHANGED <<yMu, yTimer, yCancel, yTokCount, yTimerCount, yTimerState, yTimerTok,
                   yCalls, yCtx>>
    /\ KaFrame

\* ctx, bim.cancelTimeout = context.WithCancel(context.Background())
KaNewToken(c) ==
    /\ ypc[c] = "newToken"
    /\ yTokCount' = yTokCount + 1
    /\ yCancel' = yTokCount + 1
    /\ yCtx' = [yCtx EXCEPT ![c] = yTokCount + 1]
    /\ ypc' = [ypc EXCEPT ![c] = "newTimer"]
    /\ UNCHANGED <<yMu, yTimer, yTokDone, yTimerCount, yTimerState, yTimerTok, yCalls>>
    /\ KaFrame

\* bim.inactivityTimer = time.AfterFunc(bim.inactivityTimeout, func() {...ctx...})
KaNewTimer(c) ==
    /\ ypc[c] = "newTimer"
    /\ yTimerCount' = yTimerCount + 1
    /\ yTimerState' = [yTimerState EXCEPT ![yTimerCount + 1] = "pending"]
    /\ yTimerTok' = [yTimerTok EXCEPT ![yTimerCount + 1] = yCtx[c]]
    /\ yTimer' = yTimerCount + 1
    /\ ypc' = [ypc EXCEPT ![c] = "return"]
    /\ UNCHANGED <<yMu, yCancel, yTokCount, yTokDone, yCalls, yCtx>>
    /\ KaFrame

\* the entry point returns; GetBrowserInstance's deferred Unlock runs
KaReturn(c) ==
    /\ ypc[c] = "return"
    /\ yMu' = IF yMu = c THEN 0 ELSE yMu
    /\ ypc' = [ypc EXCEPT ![c] = "idle"]
    /\ UNCHANGED <<yTimer, yCancel, yTokCount, yTokDone, yTimerCount, yTimerState,
                   yTimerTok, yCalls, yCtx>>
    /\ KaFrame

\* a pending timer fires.  Its callback returns if its ctx is done; otherwise it
\* runs CloseBrowserInstance: with bim.mu it stops and clears the stored timer and
\* cancels and clears the stored token.
KaTimerFire(t) ==
    /\ yTimerState[t] = "pending"
    /\ IF yTokDone[yTimerTok[t]]
         THEN /\ yTimerState' = [yTimerState EXCEPT ![t] = "fired"]
              /\ UNCHANGED <<yTimer, yCancel, yTokDone>>
         ELSE /\ yMu = 0
              /\ yTimerState' = [u \in KaTimers |->
                                    IF u = t THEN "fired"
                                    ELSE IF u = yTimer /\ yTimerState[u] = "pending"
                                           THEN "stopped"
                                           ELSE yTimerState[u]]
              /\ yTokDone' = IF yCancel # 0 THEN [yTokDone EXCEPT ![yCancel] = TRUE]
                                            ELSE yTokDone
              /\ yTimer' = 0
              /\ yCancel' = 0
    /\ UNCHANGED <<yMu, yTokCount, yTimerCount, yTimerTok, yCalls, ypc, yCtx>>
    /\ KaFrame

\* positions at which a goroutine reads or writes the timer handle, the token or
\* the timeout duration
KaOnFields(pos) == pos \in {"stop", "cancel", "newToken", "newTimer"}

\* timers that are pending with a token that is not cancelled
KaArmed == {t \in KaTimers : yTimerState[t] = "pending" /\ ~yTokDone[yTimerTok[t]]}

KaNext ==
    \/ \E c \in KaCallers, entry \in KaEntries : KaCall(c, entry)
    \/ \E c \in KaCallers : KaStop(c)
    \/ \E c \in KaCallers : KaCancel(c)
    \/ \E c \in KaCallers : KaNewToken(c)
    \/ \E c \in KaCallers : KaNewTimer(c)
    \/ \E c \in KaCallers : KaReturn(c)
    \/ \E t \in KaTimers : KaTimerFire(t)

(***************************************************************************)
(* utils.WithRetry(fn, maxRetries, initialDelay).  fn is the environment:  *)
(* each call yields nil, a *RetryableError or another error.  A            *)
(* time.Duration is a signed integer that wraps on overflow; it is kept    *)
(* here at DurationBits bits.                                              *)
(***************************************************************************)

\* bounds of the retry model
MaxRetries == 3
DurationBits == 4

DurationMod == 2 ^ DurationBits
RetryDelays == (0 - DurationMod \div 2)..(DurationMod \div 2 - 1)

\* a product brought back into the range of time.Duration
WrapDuration(x) == ((x + DurationMod \div 2) % DurationMod) - DurationMod \div 2

FnOutcomes == {"nil", "retryable", "other"}

IsRetryableAny(err) == err # "nil"
IsRetryable(err) == err = "retryable"

WrInit ==
    /\ wpc = "new"
    /\ wMax = 0
    /\ wInit = 0
    /\ wDelay = 0
    /\ wI = 0
    /\ wOuts = <<>>
    /\ wSleeps = <<>>
    /\ wRet = "none"

\* WithRetry is called: i := 0
WithRetry(maxRetries, initialDelay) ==
    /\ wpc = "new"
    /\ wpc' = "test"
    /\ wMax' = maxRetries
    /\ wInit' = initialDelay
    /\ wDelay' = initialDelay
    /\ wI' = 0
    /\ UNCHANGED <<wOuts, wSleeps, wRet>>
    /\ WrFrame

\* i < maxRetries: enter the body; otherwise return the "failed after" error
WrTest ==
    /\ wpc = "test"
    /\ IF wI < wMax
         THEN wpc' = "fn" /\ wRet' = wRet
         ELSE wpc' = "done" /\ wRet' = "failed"
    /\ UNCHANGED <<wMax, wInit, wDelay, wI, wOuts, wSleeps>>
    /\ WrFrame

\* err := fn(); nil is returned, a retryable error goes to the sleep, any other
\* error is returned
WrFn(err) ==
    /\ wpc = "fn"
    /\ wOuts' = Append(wOuts, err)
    /\ IF err = "nil"
         THEN wpc' = "done" /\ wRet' = "nil"
         ELSE IF IsRetryable(err)
                THEN wpc' = "sleep" /\ wRet' = wRet
                ELSE wpc' = "done" /\ wRet' = "err"
    /\ UNCHANGED <<wMax, wInit, wDelay, wI, wSleeps>>
    /\ WrFrame

\* time.Sleep(initialDelay); initialDelay *= 2; continue (i++)
WrSleep ==
    /\ wpc = "sleep"
    /\ wSleeps' = Append(wSleeps, wDelay)
    /\ wDelay' = WrapDuration(wDelay * 2)
    /\ wI' = wI + 1
    /\ wpc' = "test"
    /\ UNCHANGED <<wMax, wInit, wOuts, wRet>>
    /\ WrFrame

WrNext ==
    \/ \E maxRetries \in (0 - 1)..MaxRetries, initialDelay \in RetryDelays :
          WithRetry(maxRetries, initialDelay)
    \/ WrTest
    \/ \E err \in FnOutcomes : WrFn(err)
    \/ WrSleep

(***************************************************************************)
(* Specifications                                                          *)
(***************************************************************************)

Init ==
    PoolInit /\ MgrInit /\ CapInit /\ JsInit /\ RecInit /\ JmInit /\ CfgInit /\ TmoInit /\ LinkInit
    /\ PeInit /\ KtInit /\ RaInit /\ KaInit /\ WrInit

Next == PoolDrainNext \/ PoolLifeNext \/ PoolStrayNext \/ MgrNext \/ CapCancelNext \/ JsNext \/ RecNext \/ JmNext \/ CfgNext \/ TmoNext \/ LinkNext \/ PeNext \/ KtNext \/ RaNext \/ KaNext \/ WrNext

\* the context pool's callers alone
PoolSpec == Init /\ [][PoolNext]_vars

\* the context pool's callers and drain()
PoolDrainSpec == Init /\ [][PoolDrainNext]_vars

\* the context pool's callers and idle eviction
PoolEvictSpec == Init /\ [][PoolEvictNext]_vars

\* the context pool under initialize, acquire, release, eviction and drain
PoolLifeSpec == Init /\ [][PoolLifeNext]_vars

\* the context pool with releases of contexts nobody holds
PoolStraySpec == Init /\ [][PoolStrayNext]_vars

\* the context pool with the scheduling the JS event loop guarantees: a pending
\* interval callback, a settled await and a running drain() are eventually run
PoolFairSpec ==
    /\ PoolDrainSpec
    /\ \A c \in Callers : WF_vars(PollTick(c))
    /\ \A c \in Callers : WF_vars(CreateDone(c) \/ CreateFail(c))
    /\ WF_vars(Drain /\ drainPc # "idle")

\* the Go engine manager alone
MgrSpec == Init /\ [][MgrNext]_vars

\* the Go engine manager with the scheduling the Go runtime guarantees: an armed timer
\* fires, a started callback goroutine runs, and Lock() returns once the mutex stays free
MgrFairSpec ==
    /\ MgrSpec
    /\ \A t \in Timers : WF_vars(TimerFire(t))
    /\ \A t \in Timers : WF_vars(CallbackSelect(t))
    /\ \A t \in Timers : WF_vars(CallbackClose(t))

\* the Go capture operations alone, their contexts never cancelled
CapSpec == Init /\ [][CapNext]_vars

\* the Go capture operations alone, with cancellation of their contexts
CapCancelSpec == Init /\ [][CapCancelNext]_vars

\* the goroutines around the Go recorder's data
RaSpec == Init /\ [][RaNext]_vars

\* the Go manager's entry points on the timer fields
KaSpec == Init /\ [][KaNext]_vars

\* one call of WithRetry; a step that is possible is eventually taken (fn and
\* time.Sleep return)
WrSpec == Init /\ [][WrNext]_vars /\ WF_vars(WrNext)

\* the Go captures under the inactivity timer
KtSpec == Init /\ [][KtNext]_vars

\* the JS context pool on its engine manager
PeSpec == Init /\ [][PeNext]_vars

\* one call of the Go link extraction
LinkSpec == Init /\ [][LinkNext]_vars

\* the JS capture operation alone
JsSpec == Init /\ [][JsNext]_vars

\* the recorder's handlers on one intercepted page
RecSpec == Init /\ [][RecNext]_vars

\* the JS engine manager alone
JmSpec == Init /\ [][JmNext]_vars

\* a pool built from a configured maxPoolSize and its callers
CfgSpec == Init /\ [][CfgNext]_vars

\* the timeout setting of the Go manager
TmoGoSpec == Init /\ [][TmoGoNext]_vars

\* the timeout setting of the JS manager
TmoJsSpec == Init /\ [][TmoJsNext]_vars

Spec == Init /\ [][Next]_vars

(***************************************************************************)
(* Properties                                                              *)
(***************************************************************************)

\* C1: in every reachable state of the pool the in-use set holds at most maxPoolSize
\* contexts, for any interleaving of acquireContext() and releaseContext() callers.
C1_InUseWithinMax == Len(inUse) <= maxPoolSize

\* C2: no context is held by two callers at once: two acquireContext() calls that
\* have returned and have not been released hold distinct contexts, whichever branch
\* (idle entry, creation, polling) served them.
C2_NoSharedContext ==
    \A c1, c2 \in Callers :
        (c1 # c2 /\ apc[c1] = "holding" /\ apc[c2] = "holding") => held[c1] # held[c2]

\* two callers hold contexts at once, one of them served by the polling branch
C2_Witness ==
    \E c1, c2 \in Callers :
        /\ c1 # c2
        /\ apc[c1] = "holding" /\ apc[c2] = "holding"
        /\ via[c1] = "poll"
        /\ via[c2] \in {"pool", "create"}

\* C3: concurrent GetBrowserInstance calls never launch two engines: at most one
\* engine is alive, a launch runs only while its caller holds the lock and no handle
\* is stored, and every handle returned to a caller that is still alive is the one
\* stored handle.
C3_SingleLaunch ==
    /\ Cardinality(alive) <= 1
    /\ \A c \in GoCallers : gpc[c] = "launching" => (mu = c /\ browser = 0)
    /\ \A c1, c2 \in GoCallers :
          (gpc[c1] = "launching" /\ gpc[c2] = "launching") => c1 = c2
    /\ \A c \in GoCallers : gres[c] \in alive => gres[c] = browser

\* two callers were in GetBrowserInstance while no engine existed: one launch was
\* performed and both returned the same live handle
C3_Witness ==
    /\ engCount = 1
    /\ \E c1, c2 \in GoCallers :
          c1 # c2 /\ gres[c1] = browser /\ gres[c2] = browser /\ browser \in alive

\* C4: a timer callback that has been superseded (its token cancelled by a later
\* reset or by a shutdown) never closes the engine.
C4_StaleTimerNeverCloses == ~staleClosed

\* C5: when CapturePageSummary has returned, every page opened on its behalf has
\* been closed exactly once.
C5_PagesClosedOnce ==
    \A k \in Captures :
        cpc[k] = "done" =>
            \A p \in pageOpened : PageOwner(p) = k => closeCount[p] = 1

C7_CancelledNeverServed ==
    \A c \in Callers : aCancelled[c] => apc[c] # "holding"

\* the pool can serve a caller: an idle entry exists or the in-use set is below maxPoolSize
FreeCapacity == Len(pool) > 0 \/ Len(inUse) < maxPoolSize

\* C8: no caller stays blocked in acquireContext() forever while the pool has free
\* capacity: once a slot has been freed by releaseContext() or by drain(), a blocked
\* caller is eventually served (or the slot is taken again).
C8_BlockedEventuallyServed ==
    \A c \in Callers :
        []<>(~(apc[c] = "polling" /\ ~aCancelled[c] /\ FreeCapacity))

\* C9: the network activity of a returned summary holds only exchanges of that
\* capture's own navigation, and no interception setup clears activity that another
\* capture has recorded and not yet read.
C9_SummaryOwnActivity ==
    /\ ~wiped
    /\ \A k \in Captures :
          outcome[k] = "ok" =>
              \A i \in 1..Len(summaryNet[k]) : summaryNet[k][i][1] = k

\* a capture returned its summary after another capture's interception setup ran
\* between its own setup and its read, and both navigations received responses
C9_Witness ==
    \E k \in Captures :
        /\ outcome[k] = "ok"
        /\ answered[k] # {}
        /\ overlapped[k]
        /\ \E j \in Captures \ {k} : answered[j] # {}

\* C10: the recorder is installed on the page that navigates, so a capture that no
\* other setup interfered with and whose page received at least one response
\* returns a summary with at least one network activity.
C10_RecorderSeesNavigation ==
    \A k \in Captures :
        /\ cpc[k] = "goto" => NavPage(k) \in intercepted
        /\ (outcome[k] = "ok" /\ answered[k] # {} /\ ~overlapped[k])
              => Len(summaryNet[k]) >= 1

\* C11: in one interception window every completed request-response cycle has exactly
\* one recorded activity (the activity holding its response), never two and never
\* none, and an URL with no request in flight has no entry in the pending table.
C11_OneActivityPerCycle ==
    /\ \A r \in Cycles :
          rState[r] = "done" =>
              Cardinality({i \in 1..Len(rData) : rData[i][2] = r}) = 1
    /\ \A u \in RecUrls :
          (\A r \in Cycles : rUrl[r] = u => rState[r] = "done") => rPending[u] = 0

C13_InactivityShutsDown ==
    (browser # 0 /\ [](\A c \in GoCallers : gpc[c] = "idle"))
        ~> (browser = 0 /\ \A t \in Timers : timerState[t] # "pending")

\* C14: every step in which an acquireContext() call obtains its context (from the
\* idle pool, by creation or after blocking) and every step in which releaseContext()
\* moves a context back to the idle pool resets the manager's inactivity timer.
C14_PoolEventsResetTimer ==
    [][(\E c \in Callers :
            \/ apc[c] # "holding" /\ apc'[c] = "holding"
            \/ apc[c] = "holding" /\ apc'[c] # "holding" /\ held[c] \in Range(inUse))
        => timerFresh']_vars

\* C15: shutdown() is idempotent in the JS manager: a call made with no engine
\* changes nothing; a call made with an engine present (alone, after or during
\* another call) returns with the handle absent and no timer pending; and
\* browser.close() is never called twice on one engine.
C15_ShutdownIdempotent ==
    [][/\ \A c \in JmCallers \ {0} :
             (mpc[c] = "idle" /\ mpc'[c] = "sdReturned" /\ mBrowser = 0)
                 => UNCHANGED <<mBrowser, mTimer, mShutting, mContexts, mAlive>>
       /\ \A c \in JmCallers :
             (mpc[c] # "sdReturned" /\ mpc'[c] = "sdReturned"
                 /\ (mpc[c] = "idle" => mBrowser # 0))
                 => (mBrowser' = 0 /\ ~mTimer')
       /\ \A e \in JmEngines : mCloseCalls'[e] <= 1]_vars

\* C16: under initialize, acquire, release, stray release, idle eviction and drain,
\* no context is in the idle pool and in the in-use map at the same time.
C16_PoolInUseDisjoint == Range(pool) \cap Range(inUse) = {}

\* C16 witness: an eviction cycle closed a context, a caller took another one from
\* the idle pool and holds it in the in-use map, and drain() is running
C16_Witness ==
    /\ drainPc \in {"pool", "inuse"}
    /\ \E x \in Contexts : ctxState[x] \in {"evicted", "evictedFresh"}
    /\ \E c \in Callers : apc[c] = "holding" /\ via[c] = "pool" /\ held[c] \in Range(inUse)

\* C17: releaseContext(x) for a context x that is not in the in-use map leaves the
\* idle pool, the in-use map and the inactivity timer as they were, whether it comes
\* from a caller that holds nothing or from a holder whose context drain() removed;
\* and no context ever appears twice in the idle pool.
C17_StrayReleaseNoOp ==
    [][/\ ((~strayDone /\ strayDone')
            \/ \E c \in Callers : /\ apc[c] = "holding"
                                   /\ apc'[c] = "idle"
                                   /\ held[c] \notin Range(inUse))
          => UNCHANGED <<pool, inUse, timerFresh>>
       /\ Cardinality(Range(pool')) = Len(pool')]_vars

\* C17 witness: a stray release has happened while contexts were closed by eviction
\* and by drain(), and a context is idle
C17_Witness ==
    /\ strayDone
    /\ \E x \in Contexts : ctxState[x] \in {"evicted", "evictedFresh"}
    /\ \E x \in Contexts : ctxState[x] = "drained"
    /\ Len(pool) > 0

\* C18: when a cleanup cycle completes, every entry that was past idleTimeout at the
\* scan is gone from the expired part of the idle pool (closed, or taken by a
\* caller meanwhile), and the cycle has closed no entry that was within idleTimeout.
C18_EvictsExactlyExpired ==
    [][(evictPc = "closing" /\ evictPc' = "done")
          => /\ \A x \in evictTargets : x \notin {pool[i] : i \in 1..nExpired}
             /\ \A x \in evictVictims : ctxState[x] # "evictedFresh"]_vars

\* C19: a context closed by idle eviction is not in the in-use map and is held by no
\* caller, also when a caller took an entry the scan had selected.
C19_EvictionSparesInUse ==
    \A x \in Contexts :
        ctxState[x] \in {"evicted", "evictedFresh"}
            => /\ x \notin Range(inUse)
               /\ \A c \in Callers : apc[c] = "holding" => held[c] # x

\* C19 witness: while a cycle waits for a close, a caller holds an entry that the
\* scan of this cycle had selected as expired
C19_Witness ==
    /\ evictPc = "closing"
    /\ \E c \in Callers : /\ apc[c] = "holding"
                           /\ held[c] \in evictTargets
                           /\ held[c] \in Range(inUse)
                           /\ ctxState[held[c]] = "open"

\* C20: at the step where drain() returns, the cleanup interval is stopped, the idle
\* pool and the in-use map are empty, and every context created so far (each was
\* idle or in use) has been closed.
C20_DrainLeavesNothing ==
    [][(drainPc # "done" /\ drainPc' = "done")
          => /\ ~CleanupIntervalActive'
             /\ pool' = <<>>
             /\ inUse' = <<>>
             /\ \A x \in 1..ctxCount' : ctxState'[x] # "open"]_vars

\* C21: a close() that fails during a cleanup cycle or during drain() does not stop
\* the loop: a cycle does not end on a failed close with an entry it had selected
\* still idle and never closed, and drain() does not end on a failed close with a
\* context in its collections that was never closed.
C21_CloseErrorKeepsClosing ==
    [][/\ (evictPc = "closing" /\ evictPc' = "closeFailed")
             => \A x \in evictTargets : x \in Range(pool') => ctxState'[x] # "open"
       /\ (drainPc # "threw" /\ drainPc' = "threw")
             => \A x \in Range(pool') \cup Range(inUse') : ctxState'[x] # "open"]_vars

\* C22: a pool configured with maxPoolSize = 0 fails fast: no context is ever
\* created for it, and no caller of acquireContext() comes to hold a context or to
\* wait in the polling branch.
C22_ZeroSizeFailsFast ==
    (qStage = "built" /\ qOption.given /\ qOption.value = 0)
        => /\ qCreated = 0
           /\ \A c \in CfgCallers : qpc[c] \notin {"holding", "polling"}

\* C23: when the launch fails, GetBrowserInstance returns (nil, err) and leaves the
\* manager Absent with the mutex released: no handle is stored, no timer is created
\* or changed; and a GetBrowserInstance call that gets the mutex while no handle is
\* stored goes on to launch.
C23_LaunchFailureLeavesAbsent ==
    [][/\ \A c \in GoCallers :
             (gpc[c] = "launching" /\ gpc'[c] = "failed")
                 => /\ gres'[c] = 0
                    /\ browser' = 0
                    /\ mu' = 0
                    /\ UNCHANGED <<inactivityTimer, cancelTimeout, timerCount, timerState,
                                   alive, engCount>>
       /\ \A c \in GoCallers :
             (gpc[c] = "getWait" /\ gpc'[c] # "getWait" /\ browser = 0)
                 => (gpc'[c] = "launching" /\ mu' = c)]_vars

\* C23 witness: one caller's launch has failed and the next caller's
\* GetBrowserInstance is launching again
C23_Witness ==
    \E c1, c2 \in GoCallers :
        /\ gpc[c1] = "failed"
        /\ gpc[c2] = "launching"
        /\ browser = 0

\* C24 (Go manager): a SetInactivityTimeout call with a negative duration reports
\* an error and leaves the configured timeout and the pending timer unchanged; a
\* call with a non-negative duration is accepted and stores it; and every timer
\* created afterwards runs for the configured duration.
C24_TimeoutValidated ==
    [][/\ (tgTick' # tgTick /\ tgArg' < 0)
             => (tgErr' /\ UNCHANGED <<tgTimeout, tgArmed, tgDur>>)
       /\ (tgTick' # tgTick /\ tgArg' >= 0)
             => (~tgErr' /\ tgTimeout' = tgArg')
       /\ (tgTick' = tgTick /\ tgArmed') => tgDur' = tgTimeout']_vars

\* C25: when the navigation fails (inside NavigateToURL, at its NewPage or at its
\* Goto), CapturePageSummary ends at once, without reading markup, screenshot or
\* links, and its caller receives an error: the operation does not crash in cleanup.
C25_NavigationErrorReturned ==
    [][\A k \in Captures :
          (cpc[k] \in {"navigate", "goto"} /\ cpc'[k] \notin {"navigate", "goto", "content"})
              => (cpc'[k] = "done" /\ outcome'[k] = "error")]_vars

\* C26: a cancellation of the caller's context closes the page whenever it fires:
\* no page whose context is cancelled and whose NewPage goroutine has terminated
\* is left without a close.
C26_CancelClosesPage ==
    \A p \in pageOpened :
        (ctxDone[PageOwner(p)] /\ watcher[p] = "ran") => closeCount[p] >= 1

\* C27: an error of the cleanup never reaches the caller of summarizePage: a
\* finished operation delivered the summary or the error of the step that failed,
\* and its context was released even if page.close() threw.
C27_CleanupErrorsSwallowed ==
    \A j \in JsOps :
        jpc[j] = "done" =>
            /\ jResult[j] \in {"summary", "error"}
            /\ (jctx[j] => jReleases[j] = 1)

\* NetworkRequestCapture.safelyGetResponseBody: the content types whose body is read
TextLike(t) == t \in {"text/html", "application/json", "application/xml"}

\* C28: a recorded activity whose response has a content type that is not text-like
\* has an empty response body.
C28_OnlyTextBodiesStored ==
    \A i \in 1..Len(rData) : ~TextLike(rData[i][3]) => rData[i][5] = ""

\* safelyGetResponseBody's catch: the placeholder body
BodyErrorPlaceholder == "[Error getting response body]"

\* C29: the activity recorded for a response whose body could not be read has the
\* placeholder error string as its body.
C29_BodyErrorPlaceholder ==
    \A i \in 1..Len(rData) : ~rData[i][4] => rData[i][5] = BodyErrorPlaceholder

\* the resolved values of the hrefs that parse, in document order
RECURSIVE ResolvedHrefs(_, _)
ResolvedHrefs(anchors, base) ==
    IF anchors = <<>> THEN <<>>
    ELSE (IF ParseOk(Head(anchors)) THEN <<ResolvedURL(base, Head(anchors))>> ELSE <<>>)
         \o ResolvedHrefs(Tail(anchors), base)

\* s without the later occurrences of each of its values
RECURSIVE DedupFirst(_)
DedupFirst(s) ==
    IF s = <<>> THEN <<>>
    ELSE LET front == DedupFirst(SubSeq(s, 1, Len(s) - 1)) IN
         IF s[Len(s)] \in Range(front) THEN front ELSE Append(front, s[Len(s)])

\* the anchors /link1, https://example.com/link2, link3.html
ExampleAnchors ==
    << <<"/", "link1">>, <<"https:", "//example.com", "/", "link2">>, <<"link3.html">> >>

\* http://h/link1, https://example.com/link2, http://h/link3.html
ExampleLinks ==
    << <<"http:", "//h", "/", "link1">>, <<"https:", "//example.com", "/", "link2">>,
       <<"http:", "//h", "/", "link3.html">> >>

\* C30: extractLinks returns the hrefs resolved against the base URL, duplicates by
\* resolved value removed, the first occurrence kept and the order of first
\* occurrence preserved; for the anchors /link1, https://example.com/link2,
\* link3.html and base http://h/ it returns exactly http://h/link1,
\* https://example.com/link2, http://h/link3.html.
C30_LinksResolvedDeduped ==
    (lpc = "done" /\ ~lErr) =>
        /\ lLinks = DedupFirst(ResolvedHrefs(lAnchors, lBase))
        /\ (lAnchors = ExampleAnchors /\ lBase = <<"http:", "//h", "/">>)
              => lLinks = ExampleLinks

\* C30 witness: the call on the example document has returned.
C30_Witness ==
    /\ lpc = "done" /\ ~lErr
    /\ lAnchors = ExampleAnchors
    /\ lBase = <<"http:", "//h", "/">>
    /\ Len(lLinks) = 3

\* C31: in the JS manager overlapping first uses launch one engine: every engine
\* that is running is the one this.browser refers to, so none is left without owner.
C31_JsSingleLaunch == mAlive \subseteq {mBrowser}

\* C32: with two requests to one URL in flight the pending table has one entry for
\* the URL, and each of the two responses produces an activity, paired with the
\* request that the table holds when the response arrives.
C32_CollidingResponsesPaired ==
    [][/\ \A u \in RecUrls :
             rPending'[u] # 0 => (rUrl'[rPending'[u]] = u /\ rState'[rPending'[u]] = "sent")
       /\ \A r \in Cycles :
             (/\ rState[r] = "sent" /\ rState'[r] = "done"
              /\ \E r2 \in Cycles \ {r} : rUrl[r2] = rUrl[r] /\ rState[r2] # "none")
                 => /\ Len(rData') = Len(rData) + 1
                    /\ rData'[Len(rData')][1] = rPending[rUrl[r]]
                    /\ rData'[Len(rData')][2] = r]_vars

C34_NoEngineHandedOutInShutdown ==
    [][\A c \in JmCallers \ {0} :
          (/\ mpc[c] \in {"idle", "launching"}
           /\ mpc'[c] \in {"idle", "newContext"}
           /\ mLocal'[c] # 0
           /\ (mLocal'[c] # mLocal[c] \/ mpc'[c] # mpc[c]))
              => ~(/\ mLocal'[c] = mBrowser
                   /\ \E d \in JmCallers :
                         \/ mpc[d] = "sdBrowser"
                         \/ mpc[d] = "sdContexts" /\ mVisited[d] # {})]_vars

\* C35: acquireContext() never returns an idle context that was created on an
\* engine that has been shut down since.
C35_NoContextOfDeadEngine ==
    [][\A c \in PeCallers :
          (epc[c] \in {"idle", "polling"} /\ epc'[c] = "holding")
              => eCtxEngine[eHeld'[c]] \notin eDead]_vars

\* C36: no firing of the inactivity timer closes an engine that a capture in
\* progress (between its page creation and its return) has a page on.
C36_NoShutdownDuringCapture ==
    [][\A k \in KtCaptures :
          kpc[k] \in {"navigate", "goto", "read"}
              => /\ (kEngine[k] \notin kDead => kEngine[k] \notin kDead')
                 /\ (kNavEngine[k] \notin kDead => kNavEngine[k] \notin kDead')]_vars

\* C37: in the Go manager, whenever the lock is free and an engine handle is
\* present, an inactivity timer whose token is not cancelled is pending or its
\* callback is on its way to close the engine.
C37_EngineAlwaysHasTimer ==
    (mu = 0 /\ browser # 0) =>
        \E t \in Timers :
            /\ ~tokenDone[t]
            /\ (timerState[t] = "pending" \/ cbPc[t] \in {"select", "closeWait"})

\* C38: the recorder's result list and its pending table are each accessed by at
\* most one goroutine at a time (handlers and GetCapturedNetworkData included).
C38_RecorderAccessExclusive ==
    /\ Cardinality({k \in RaCallers : RaOnData(aCaller[k])})
          + (IF RaOnData(aHandler) THEN 1 ELSE 0) <= 1
    /\ Cardinality({k \in RaCallers : RaOnPending(aCaller[k])})
          + (IF RaOnPending(aHandler) THEN 1 ELSE 0) <= 1

\* C39: every goroutine that is reading or writing the timer handle, the token or
\* the timeout of the Go manager holds the manager's lock, and at most one timer is
\* pending with a token that is not cancelled.
C39_TimerFieldsUnderLock ==
    /\ \A c \in KaCallers : KaOnFields(ypc[c]) => yMu = c
    /\ Cardinality(KaArmed) <= 1

\* calls of fn so far, and the calls WithRetry may make at most
WrCalls == Len(wOuts)
WrLimit == IF wMax > 0 THEN wMax ELSE 0

\* C40 as stated: WithRetry calls fn at most maxRetries times; it returns nil exactly
\* at the first nil of fn, returns another error at once, sleeps initialDelay * 2^k
\* after the (k+1)-th retryable failure, and reports failure after exactly
\* maxRetries calls that all failed with a retryable error.
C40_AsStated ==
    /\ WrCalls <= wMax
    /\ \A k \in 1..Len(wSleeps) : wSleeps[k] = wInit * 2 ^ (k - 1)
    /\ wRet = "failed" => (WrCalls = wMax /\ \A k \in 1..WrCalls : wOuts[k] = "retryable")

\* C40 (amended): WithRetry terminates and calls fn at most max(maxRetries, 0)
\* times; every call but the last failed with a retryable error; it returns nil
\* exactly when the last call returned nil, the other error exactly when the last
\* call failed with a non-retryable one, and the failure exactly after
\* max(maxRetries, 0) calls that all failed retryably; the delay slept after the
\* (k+1)-th retryable failure is initialDelay * 2^k wrapped to the width of
\* time.Duration.
C40_RetryBounded ==
    /\ [](/\ WrCalls <= WrLimit
          /\ \A k \in 1..(WrCalls - 1) : wOuts[k] = "retryable"
          /\ (wRet = "nil") = (WrCalls > 0 /\ wOuts[WrCalls] = "nil")
          /\ (wRet = "err") = (WrCalls > 0 /\ wOuts[WrCalls] = "other")
          /\ wRet = "failed" =>
                (WrCalls = WrLimit /\ \A k \in 1..WrCalls : wOuts[k] = "retryable")
          /\ (wRet # "none") = (wpc = "done")
          /\ \A k \in 1..Len(wSleeps) : wSleeps[k] = WrapDuration(wInit * 2 ^ (k - 1))
          /\ Len(wSleeps) = Cardinality({k \in 1..WrCalls : wOuts[k] = "retryable"})
                               - (IF wpc = "sleep" THEN 1 ELSE 0))
    /\ (wpc # "new") ~> (wpc = "done")

\* every one of maxRetries = MaxRetries calls failed retryably, the delays 1, 2, 4
\* were slept and the failure was returned
C40_Witness ==
    /\ wRet = "failed"
    /\ wMax = MaxRetries
    /\ wInit = 1
    /\ WrCalls = MaxRetries
    /\ \A k \in 1..Len(wSleeps) : wSleeps[k] = 2 ^ (k - 1)
    /\ Len(wSleeps) = MaxRetries

====
